---- MODULE Spec2Model ----
(***************************************************************************)
(* SpecGrade: the rule registry, the runner, the built-in rules and the    *)
(* grader, as state machines.                                              *)
(*                                                                         *)
(*   Spec        the registry and the runner (Register, registerRules,     *)
(*               NewRunner, a loaded SpecContext, Run, RunRule, GetRule,   *)
(*               RulesForVersion)                                          *)
(*   SpecGrader  DefaultGrader.Grade and DefaultGrader.CalculateScore      *)
(*               applied to result sets drawn in Init                      *)
(*   SpecTraverse  SchemaExampleConsistencyRule.Evaluate step by step,     *)
(*               with the call stack of checkSchemaExamplesWithDepth       *)
(*   SpecExit    ci.NewExitHandler and ExitHandler.Handle                  *)
(*   SpecCLI     the command: flag parsing and runSpecGrade                *)
(*   SpecExample the direct example check and isExampleValidForType        *)
(*               applied to a declared type and an example value           *)
(*   SpecConcurrent  Evaluate calls in several goroutines on one           *)
(*               SpecContext                                               *)
(***************************************************************************)
EXTENDS Integers, Sequences, FiniteSets, TLC

VARIABLES
    rules,        \* RuleRegistry.rules: the registered rule instances, in order
    skipRules,    \* Runner.skipRules: the keys of the skip map
    runner,       \* TRUE once NewRunner has built the runner
    specCtx,      \* the loaded *core.SpecContext (document and version), or NoSpec
    out,          \* the value returned by the last call: [op, arg, val]
    graderInput,  \* the []core.RuleResult handed to the grader
    gradeOut,     \* the letter returned by Grade
    scoreOut,     \* the integer returned by CalculateScore
    gdone,        \* which of the grader's two methods have returned
    travCtx,      \* the *core.SpecContext the stepwise Evaluate was called with
    travOrd,      \* the order in which this evaluation meets the keys of each map
    travPc,       \* where Evaluate is: "idle", "range", "returned" or "overflow"
    travNames,    \* the schema names the range over Components.Schemas has left
    travIssues,   \* Evaluate's local issues
    travStack,    \* the frames of checkSchemaExamplesWithDepth, the innermost last
    travVisited,  \* the visited map of the current checkSchemaExamples call
    travResult,   \* the core.RuleResult Evaluate returned
    exitHandler,  \* the *ci.ExitHandler: [isNil, failThreshold]
    exitOut,      \* the last Handle call: [called, grade, code]
    flags,        \* the command's flag variables
    cliOut,       \* how runSpecGrade ended: [ran, config, report, output, err, exitCode]
    exInput,      \* a schema's declared type and the value of its example
    exOut,        \* the last call of the example check: [op, valid, issues]
    conCtx,       \* the *core.SpecContext the concurrent Evaluate calls share
    conOrd,       \* each goroutine's map iteration orders
    conEval,      \* each goroutine's Evaluate call: its position and locals
    conVisited    \* the visited maps, one per checkSchemaExamples call in progress

vars ==
    <<rules, skipRules, runner, specCtx, out, graderInput, gradeOut, scoreOut, gdone,
      travCtx, travOrd, travPc, travNames, travIssues, travStack, travVisited, travResult,
      exitHandler, exitOut, flags, cliOut,
      exInput, exOut, conCtx, conOrd, conEval, conVisited>>

registryVars == <<rules, skipRules, runner, specCtx, out>>

graderVars == <<graderInput, gradeOut, scoreOut, gdone>>

travVars ==
    <<travCtx, travOrd, travPc, travNames, travIssues, travStack, travVisited, travResult>>

exitVars == <<exitHandler, exitOut>>

cliVars == <<flags, cliOut>>

exampleVars == <<exInput, exOut>>

concurrentVars == <<conCtx, conOrd, conEval, conVisited>>

(***************************************************************************)
(* Bounds of the model.                                                    *)
(***************************************************************************)
\* longest result set of the form "the first p passed, the rest failed"
MaxTotal == 100

\* longest result set drawn with every mix of passed and failed results
MaxMix == 4

\* most rules registered one at a time by Register
MaxRules == 2

(***************************************************************************)
(* Strings.  TLC concatenates strings and converts numbers to text, which  *)
(* is what fmt.Sprintf is used for; where the code looks inside a string   *)
(* (HasPrefix, TrimSpace) the string is a sequence of characters.          *)
(***************************************************************************)
\* strings.HasPrefix(s, prefix)
HasPrefix(s, prefix) ==
    /\ Len(s) >= Len(prefix)
    /\ SubSeq(s, 1, Len(prefix)) = prefix

\* fmt's %d
Itoa(n) == ToString(n)

(***************************************************************************)
(* float64 arithmetic of the grader.                                       *)
(*                                                                         *)
(* Both methods compute float64(passed) / float64(len(results)) * 100.     *)
(* IEEE-754 division and multiplication are correctly rounded (to nearest, *)
(* ties to even, 53-bit significands), so the product is                   *)
(* fl(fl(p/t) * 100).  The code only compares it with integers and         *)
(* truncates it, so the model keeps its floor.                             *)
(*                                                                         *)
(*  - 100p/t not an integer: it lies at least 1/t from the integers around *)
(*    it while the two roundings move it by less than 2^-45, so for every  *)
(*    t below 2^44 the floor is that of the exact quotient.                *)
(*  - 100p/t = k, an integer: fl(p/t) = fl(k/100) = m * 2^-e with m the    *)
(*    integer nearest to k * 2^e / 100 and 2^52 <= m < 2^53.  Then         *)
(*    100 * m = k * 2^e + d with d = 100m - k*2^e, |d| <= 50, and the      *)
(*    product rounds to below k exactly when d < 0 and |d| exceeds half    *)
(*    the spacing of the doubles just below k * 2^e.                       *)
(***************************************************************************)
RECURSIVE Pow2(_)
Pow2(n) == IF n = 0 THEN 1 ELSE 2 * Pow2(n - 1)

\* (k * 2^e) mod q, computed without leaving small integers
RECURSIVE ShiftMod(_, _, _)
ShiftMod(k, e, q) == IF e = 0 THEN k % q ELSE ShiftMod((2 * k) % q, e - 1, q)

\* the number of binary digits of k >= 1
RECURSIVE BitLen(_)
BitLen(k) == IF k <= 1 THEN 1 ELSE 1 + BitLen(k \div 2)

\* the least n with 100 <= k * 2^n: k/100 lies in [2^-n, 2^(1-n))
RECURSIVE Scale(_)
Scale(k) == IF k >= 100 THEN 0 ELSE 1 + Scale(2 * k)

IsPow2(k) == k = Pow2(BitLen(k) - 1)

\* d = 100 * m - k * 2^e for the significand m of fl(k / 100), e = 52 + Scale(k)
QuotientError(k) ==
    LET e == 52 + Scale(k)
        r == ShiftMod(k, e, 100)
        \* parity of floor(k * 2^e / 100), for a tie
        odd == ((ShiftMod(k, e, 200) - r) \div 100) = 1
    IN  IF r = 0 THEN 0
        ELSE IF r < 50 \/ (r = 50 /\ ~odd) THEN 0 - r
        ELSE 100 - r

\* fl(fl(k/100) * 100) < k, for an integer 1 <= k <= 100
RoundsBelow(k) ==
    LET d == QuotientError(k)
        \* spacing of the doubles in the binade of k * 2^e, in units of 2^-e
        ulp == Pow2(Scale(k) + BitLen(k) - 1)
        below == IF IsPow2(k) THEN ulp \div 2 ELSE ulp
    IN  d < 0 /\ 2 * (0 - d) > below

\* floor(float64(passed) / float64(total) * 100), total > 0
PercentFloor(passed, total) ==
    LET k == (100 * passed) \div total
    IN  IF (100 * passed) % total = 0 /\ k >= 1 /\ RoundsBelow(k) THEN k - 1 ELSE k

(***************************************************************************)
(* DefaultGrader                                                           *)
(***************************************************************************)
\* the loop "for _, result := range results { if result.Passed { passed++ } }"
RECURSIVE CountPassed(_)
CountPassed(results) ==
    IF results = <<>> THEN 0
    ELSE (IF Head(results).Passed THEN 1 ELSE 0) + CountPassed(Tail(results))

\* the switch of Grade: the cases in order, each <<lower edge, letter>>
GradeTable ==
    << <<95, "A+">>, <<90, "A">>, <<85, "A-">>, <<80, "B+">>, <<75, "B">>,
       <<70, "B-">>, <<65, "C+">>, <<60, "C">>, <<55, "C-">>, <<50, "D">> >>

\* the letter of the default case
DefaultLetter == "F"

\* AtLeast with the comparison made strict
AtLeast_Strict(percentFloor, edge) == percentFloor > edge

\* "case percentage >= edge": the product is compared as a float64
AtLeast(percentFloor, edge) == percentFloor >= edge

\* the first case of the switch that holds, else the default
RECURSIVE SwitchLetter(_, _)
SwitchLetter(percentFloor, i) ==
    IF i > Len(GradeTable) THEN DefaultLetter
    ELSE IF AtLeast(percentFloor, GradeTable[i][1]) THEN GradeTable[i][2]
    ELSE SwitchLetter(percentFloor, i + 1)

\* Grade with the empty result set left ungraded
Grade_EmptyUngraded(results) ==
    IF Len(results) = 0 THEN ""
    ELSE SwitchLetter(PercentFloor(CountPassed(results), Len(results)), 1)

\* CalculateScore rounding to the nearest integer, halves up
CalculateScore_Nearest(results) ==
    IF Len(results) = 0 THEN 0
    ELSE (200 * CountPassed(results) + Len(results)) \div (2 * Len(results))

\* CalculateScore rounding up by adding one to the truncated product
CalculateScore_RoundUp(results) ==
    IF Len(results) = 0 THEN 0
    ELSE PercentFloor(CountPassed(results), Len(results)) + 1

Grade(results) ==
    IF Len(results) = 0 THEN "F"
    ELSE SwitchLetter(PercentFloor(CountPassed(results), Len(results)), 1)

\* int(float64(passed) / float64(len(results)) * 100): Go truncates toward zero
CalculateScore(results) ==
    IF Len(results) = 0 THEN 0
    ELSE PercentFloor(CountPassed(results), Len(results))

\* a core.RuleResult as the grader's callers build it (only Passed is read)
GraderResult(i, passed) ==
    [RuleID |-> "RULE" \o Itoa(i), Passed |-> passed, Detail |-> "",
     Severity |-> "", Category |-> ""]

\* total results of which the first p passed (TestGradeBoundaries)
PrefixResults(p, total) == [i \in 1..total |-> GraderResult(i, i <= p)]

\* every mix of passed and failed results of a given length
MixResults(n) == {[i \in 1..n |-> GraderResult(i, f[i])] : f \in [1..n -> BOOLEAN]}

GraderInputs ==
    {PrefixResults(p[1], p[2]) : p \in {q \in (0..MaxTotal) \X (0..MaxTotal) : q[1] <= q[2]}}
    \cup UNION {MixResults(n) : n \in 0..MaxMix}

GraderInit ==
    /\ graderInput \in GraderInputs
    /\ gradeOut = ""
    /\ scoreOut = 0
    /\ gdone = {}

CallGrade ==
    /\ "Grade" \notin gdone
    /\ gradeOut' = Grade(graderInput)
    /\ gdone' = gdone \cup {"Grade"}
    /\ UNCHANGED <<graderInput, scoreOut>>
    /\ UNCHANGED <<registryVars, travVars, exitVars, cliVars, exampleVars, concurrentVars>>

CallCalculateScore ==
    /\ "CalculateScore" \notin gdone
    /\ scoreOut' = CalculateScore(graderInput)
    /\ gdone' = gdone \cup {"CalculateScore"}
    /\ UNCHANGED <<graderInput, gradeOut>>
    /\ UNCHANGED <<registryVars, travVars, exitVars, cliVars, exampleVars, concurrentVars>>

(***************************************************************************)
(* Versions and documents.                                                 *)
(*                                                                         *)
(* A version is a sequence of characters.  A document is the *openapi3.T   *)
(* the rules read: Info (a pointer), Paths (a map), Components (a pointer) *)
(* with its Schemas and SecuritySchemes maps.  Schemas live in a heap      *)
(* indexed by node identity, since the code keys its visited map by        *)
(* *openapi3.Schema; a SchemaRef whose Value is nil is the reference 0.    *)
(***************************************************************************)
V20 == <<"2", ".", "0">>

V310 == <<"3", ".", "1", ".", "0">>

V400 == <<"4", ".", "0", ".", "0">>

\* a version whose first character is 3 and whose second is not a dot
V30 == <<"3", "0">>

Versions == {V20, V310, V400, V30}

\* a nil map and maps built from their entries
NilMap == [isNil |-> TRUE, items |-> <<>>]

MapOf(f) == [isNil |-> FALSE, items |-> f]

Keys(m) == DOMAIN m.items

MapLen(m) == Cardinality(Keys(m))

\* a nil *openapi3.Operation and an operation
NoOp == [isNil |-> TRUE, OperationID |-> "", Description |-> <<>>, Responses |-> NilMap]

Op(id, description, responses) ==
    [isNil |-> FALSE, OperationID |-> id, Description |-> description, Responses |-> responses]

NoPathItem ==
    [Get |-> NoOp, Post |-> NoOp, Put |-> NoOp, Delete |-> NoOp,
     Patch |-> NoOp, Head |-> NoOp, Options |-> NoOp]

\* the operations of a path item in the order the rules list them
Operations(pathItem) ==
    <<pathItem.Get, pathItem.Post, pathItem.Put, pathItem.Delete,
      pathItem.Patch, pathItem.Head, pathItem.Options>>

NoInfo == [isNil |-> TRUE, Title |-> "", Version |-> ""]

Info(title, version) == [isNil |-> FALSE, Title |-> title, Version |-> version]

NoComponents == [isNil |-> TRUE, Schemas |-> NilMap, SecuritySchemes |-> NilMap]

Components(schemas, securitySchemes) ==
    [isNil |-> FALSE, Schemas |-> schemas, SecuritySchemes |-> securitySchemes]

\* an example value: its dynamic type, its %v text, and for a float64 whether
\* f == float64(int64(f))
NoExample == [isNil |-> TRUE, kind |-> "", text |-> "", integral |-> FALSE]

Example(kind, text, integral) ==
    [isNil |-> FALSE, kind |-> kind, text |-> text, integral |-> integral]

SchemaNode(type, example, properties) ==
    [Type |-> type, Example |-> example, Properties |-> properties]

\* a description, as characters
DescNone == <<>>

DescShort == <<" ", "L", "i", "s", "t", " ">>

DescLong == <<"L", "i", "s", "t", " ", "a", "l", "l", " ", "p", "e", "t", "s">>

\* the empty document: no info, paths = {}, no components
DocEmpty ==
    [Info |-> NoInfo, Paths |-> MapOf(<<>>), Components |-> NoComponents, heap |-> <<>>]

\* info.title = "", one path with a GET that has no operationId, no security schemes
DocScenario ==
    [Info |-> Info("", "1.0.0"),
     Paths |-> MapOf([p \in {"/users"} |->
                  [NoPathItem EXCEPT !.Get = Op("", DescLong, MapOf([c \in {"200"} |-> TRUE]))]]),
     Components |-> NoComponents,
     heap |-> <<>>]

\* two named schemas, each with an example that does not match its type
DocMismatch ==
    [Info |-> Info("Pets", "1.0.0"),
     Paths |-> MapOf([p \in {"/pets"} |->
                  [NoPathItem EXCEPT
                     !.Get = Op("listPets", DescShort, NilMap),
                     !.Post = Op("listPets", DescNone, MapOf([c \in {"400", "500"} |-> TRUE]))]]),
     Components |-> Components(MapOf([n \in {"Pet", "User"} |-> IF n = "Pet" THEN 1 ELSE 2]),
                               MapOf(<<>>)),
     heap |-> << SchemaNode("string", Example("int", "42", FALSE), NilMap),
                 SchemaNode("integer", Example("float64", "1.5", FALSE),
                            MapOf([n \in {"name"} |-> 3])),
                 SchemaNode("string", Example("string", "Rex", FALSE), NilMap) >>]

\* a document every built-in rule passes
DocGood ==
    [Info |-> Info("Pet Store API", "1.0.0"),
     Paths |-> MapOf([p \in {"/pets"} |->
                  [NoPathItem EXCEPT
                     !.Get = Op("listPets", DescLong, MapOf([c \in {"200", "400", "500"} |-> TRUE]))]]),
     Components |-> Components(MapOf([n \in {"Pet"} |-> 1]),
                               MapOf([n \in {"apiKey"} |-> TRUE])),
     heap |-> << SchemaNode("object", NoExample, MapOf([n \in {"id", "self"} |-> IF n = "id" THEN 2 ELSE 1])),
                 SchemaNode("integer", Example("float64", "7", TRUE), NilMap) >>]

\* info without a version, no paths key, components without schemas and
\* without securitySchemes
DocSparse ==
    [Info |-> Info("Sparse API", ""),
     Paths |-> NilMap,
     Components |-> Components(NilMap, NilMap),
     heap |-> <<>>]

\* a path item with no operations; a schema with an example and no type, a
\* schema with a type and no example, and a schema reference whose Value is nil
DocBare ==
    [Info |-> Info("Bare", "0.1"),
     Paths |-> MapOf([p \in {"/ping"} |-> NoPathItem]),
     Components |-> Components(MapOf([n \in {"Any", "Typed", "Null"} |->
                                        IF n = "Any" THEN 1 ELSE IF n = "Typed" THEN 2 ELSE 0]),
                               MapOf(<<>>)),
     heap |-> << SchemaNode("", Example("int", "5", FALSE), NilMap),
                 SchemaNode("string", NoExample, MapOf([n \in {"gone"} |-> 0])) >>]

\* a two-schema cycle: NodeA.child -> NodeB, NodeB.parent -> NodeA
DocCircularRef ==
    [Info |-> Info("Circular Reference Test", "1.0.0"),
     Paths |-> MapOf([p \in {"/test"} |->
                  [NoPathItem EXCEPT
                     !.Get = Op("testCircular", DescNone, MapOf([c \in {"200"} |-> TRUE]))]]),
     Components |-> Components(MapOf([n \in {"NodeA", "NodeB"} |-> IF n = "NodeA" THEN 1 ELSE 2]),
                               NilMap),
     heap |-> << SchemaNode("object", NoExample,
                            MapOf([n \in {"id", "child"} |-> IF n = "id" THEN 3 ELSE 2])),
                 SchemaNode("object", NoExample,
                            MapOf([n \in {"id", "parent"} |-> IF n = "id" THEN 4 ELSE 1])),
                 SchemaNode("string", NoExample, NilMap),
                 SchemaNode("string", NoExample, NilMap) >>]

\* a chain Root -> next -> ... twelve levels deep, with mismatching examples at
\* depth 10 (node 11) and depth 11 (node 12), and a mismatching sibling of the
\* chain; the sibling and the deepest node are named schemas of their own too
DocDeepNesting ==
    [Info |-> Info("Deep Nesting Test", "1.0.0"),
     Paths |-> MapOf([p \in {"/test"} |->
                  [NoPathItem EXCEPT
                     !.Get = Op("testDeepNesting", DescNone, MapOf([c \in {"200"} |-> TRUE]))]]),
     Components |-> Components(MapOf([n \in {"Root", "Tag", "Leaf"} |->
                                        IF n = "Root" THEN 1 ELSE IF n = "Tag" THEN 13 ELSE 12]),
                               NilMap),
     heap |-> [i \in 1..13 |->
                 IF i = 1
                 THEN SchemaNode("object", NoExample,
                                 MapOf([n \in {"next", "tag"} |-> IF n = "next" THEN 2 ELSE 13]))
                 ELSE IF i = 13 THEN SchemaNode("boolean", Example("string", "yes", FALSE), NilMap)
                 ELSE IF i = 12 THEN SchemaNode("string", Example("int", "12", FALSE), NilMap)
                 ELSE IF i = 11
                 THEN SchemaNode("integer", Example("string", "ten", FALSE),
                                 MapOf([n \in {"next"} |-> 12]))
                 ELSE SchemaNode("object", NoExample, MapOf([n \in {"next"} |-> i + 1]))]]

\* one mismatching node reached from the named schema along two property paths
DocDiamond ==
    [Info |-> Info("Diamond", "1.0.0"),
     Paths |-> MapOf(<<>>),
     Components |-> Components(MapOf([n \in {"Root"} |-> 1]), NilMap),
     heap |-> << SchemaNode("object", NoExample,
                            MapOf([n \in {"a", "b"} |-> IF n = "a" THEN 2 ELSE 3])),
                 SchemaNode("object", NoExample, MapOf([n \in {"x"} |-> 4])),
                 SchemaNode("object", NoExample, MapOf([n \in {"x"} |-> 4])),
                 SchemaNode("number", Example("bool", "true", FALSE), NilMap) >>]

\* a two-schema cycle whose nodes both carry a mismatching example
DocCycleMismatch ==
    [Info |-> Info("Cycle", "1.0.0"),
     Paths |-> MapOf(<<>>),
     Components |-> Components(MapOf([n \in {"NodeA", "NodeB"} |-> IF n = "NodeA" THEN 1 ELSE 2]),
                               NilMap),
     heap |-> << SchemaNode("object", Example("string", "a", FALSE),
                            MapOf([n \in {"child"} |-> 2])),
                 SchemaNode("integer", Example("float64", "1.5", FALSE),
                            MapOf([n \in {"parent"} |-> 1])) >>]

Docs == {DocEmpty, DocScenario, DocMismatch, DocGood, DocSparse, DocBare}

\* every order in which Go may iterate a map with these keys
Perms(S) ==
    {s \in [1..Cardinality(S) -> S] : \A i, j \in 1..Cardinality(S) : s[i] = s[j] => i = j}

\* the iteration orders of the Properties maps of the nodes 1..n, node by node
RECURSIVE PropOrders(_, _)
PropOrders(doc, n) ==
    IF n = 0 THEN {<<>>}
    ELSE {Append(f, p) : f \in PropOrders(doc, n - 1),
                         p \in Perms(Keys(doc.heap[n].Properties))}

\* the iteration orders one evaluation pass may meet: one per map of the document
Orders(doc) ==
    [schemas : Perms(Keys(doc.Components.Schemas)),
     props : PropOrders(doc, Len(doc.heap)),
     paths : Perms(Keys(doc.Paths))]

(***************************************************************************)
(* Rules.  A rule instance is one of the eight built-in rule types or      *)
(* another implementation of core.Rule (kind "other") with its own ID and  *)
(* the version prefix it applies to.                                       *)
(***************************************************************************)
Builtin(kind) == [kind |-> kind, name |-> "", gate |-> <<>>]

OtherRule(id, prefix) == [kind |-> "other", name |-> id, gate |-> prefix]

\* Rule.ID()
ID(rule) ==
    CASE rule.kind = "InfoTitleRule" -> "info-title"
      [] rule.kind = "InfoVersionRule" -> "info-version"
      [] rule.kind = "PathsExistRule" -> "paths-exist"
      [] rule.kind = "OperationIDRule" -> "operation-operationId-unique"
      [] rule.kind = "SchemaExampleConsistencyRule" -> "oas3-valid-schema-example"
      [] rule.kind = "OperationDescriptionRule" -> "operation-description"
      [] rule.kind = "ErrorResponseRule" -> "operation-success-response"
      [] rule.kind = "SecuritySchemeRule" -> "oas3-security-defined"
      [] OTHER -> rule.name

\* the prefix every built-in AppliesTo tests
BuiltinPrefix == <<"3", ".">>

\* AppliesTo testing the major digit alone, without the dot
AppliesTo_MajorDigit(rule, version) ==
    IF rule.kind = "other" THEN HasPrefix(version, rule.gate)
    ELSE HasPrefix(version, <<"3">>)

\* Rule.AppliesTo(version)
AppliesTo(rule, version) ==
    IF rule.kind = "other" THEN HasPrefix(version, rule.gate)
    ELSE HasPrefix(version, BuiltinPrefix)

\* a core.RuleResult; a field the code leaves out of the literal is ""
Result(id, passed, detail, severity, category) ==
    [RuleID |-> id, Passed |-> passed, Detail |-> detail,
     Severity |-> severity, Category |-> category]

\* InfoTitleRule.Evaluate without the test for the empty title
InfoTitleRuleEvaluate_EmptyIsShort(rule, ctx) ==
    IF ctx.Spec.Info.isNil
    THEN Result(ID(rule), FALSE, "Missing info section", "error", "documentation")
    ELSE IF Len(ctx.Spec.Info.Title) < 5
    THEN Result(ID(rule), FALSE,
                "Title too short: '" \o ctx.Spec.Info.Title \o "' (minimum 5 characters recommended)",
                "warning", "documentation")
    ELSE Result(ID(rule), TRUE, "Title present: '" \o ctx.Spec.Info.Title \o "'",
                "info", "documentation")

InfoTitleRuleEvaluate(rule, ctx) ==
    IF ctx.Spec.Info.isNil
    THEN Result(ID(rule), FALSE, "Missing info section", "error", "documentation")
    ELSE IF ctx.Spec.Info.Title = ""
    THEN Result(ID(rule), FALSE, "Missing title in info section", "error", "documentation")
    ELSE IF Len(ctx.Spec.Info.Title) < 5
    THEN Result(ID(rule), FALSE,
                "Title too short: '" \o ctx.Spec.Info.Title \o "' (minimum 5 characters recommended)",
                "warning", "documentation")
    ELSE Result(ID(rule), TRUE, "Title present: '" \o ctx.Spec.Info.Title \o "'",
                "info", "documentation")

\* what is left of an evaluation that read a field through a nil pointer: the
\* run-time panic, no RuleResult
NilDereference ==
    Result("", FALSE, "runtime error: invalid memory address or nil pointer dereference", "", "")

\* InfoVersionRule.Evaluate reading ctx.Spec.Info.Version without the nil test
InfoVersionRuleEvaluate_NoNilCheck(rule, ctx) ==
    IF ctx.Spec.Info.isNil
    THEN NilDereference
    ELSE IF ctx.Spec.Info.Version = ""
    THEN Result(ID(rule), FALSE, "Missing version in info section", "", "")
    ELSE Result(ID(rule), TRUE, "Version present", "", "")

InfoVersionRuleEvaluate(rule, ctx) ==
    IF ctx.Spec.Info.isNil
    THEN Result(ID(rule), FALSE, "Missing info section", "", "")
    ELSE IF ctx.Spec.Info.Version = ""
    THEN Result(ID(rule), FALSE, "Missing version in info section", "", "")
    ELSE Result(ID(rule), TRUE, "Version present", "", "")

PathsExistRuleEvaluate(rule, ctx) ==
    IF MapLen(ctx.Spec.Paths) = 0
    THEN Result(ID(rule), FALSE, "No paths defined", "", "")
    ELSE Result(ID(rule), TRUE, Itoa(MapLen(ctx.Spec.Paths)) \o " paths defined", "", "")

\* the non-nil operations of the document, path by path in the iteration order
\* and within a path in the order GET, POST, PUT, DELETE, PATCH, HEAD, OPTIONS
RECURSIVE AllOperations(_, _)
AllOperations(paths, order) ==
    IF order = <<>> THEN <<>>
    ELSE SelectSeq(Operations(paths.items[Head(order)]), LAMBDA op : ~op.isNil)
         \o AllOperations(paths, Tail(order))

\* the loop of OperationIDRule over the operations: [seen, missing, duplicate]
RECURSIVE OperationIDLoop(_, _)
OperationIDLoop(ops, acc) ==
    IF ops = <<>> THEN acc
    ELSE LET id == Head(ops).OperationID
         IN  OperationIDLoop(Tail(ops),
                 IF id = "" THEN [acc EXCEPT !.missing = @ + 1]
                 ELSE [seen |-> acc.seen \cup {id},
                       missing |-> acc.missing,
                       duplicate |-> acc.duplicate + (IF id \in acc.seen THEN 1 ELSE 0)])

\* OperationIDRule.Evaluate writing the duplicates into the detail only when
\* operation IDs are missing too
OperationIDRuleEvaluate_DuplicatesUntold(rule, ctx, ord) ==
    IF ctx.Spec.Paths.isNil
    THEN Result(ID(rule), TRUE, "No paths to check", "", "")
    ELSE LET c == OperationIDLoop(AllOperations(ctx.Spec.Paths, ord.paths),
                                  [seen |-> {}, missing |-> 0, duplicate |-> 0])
             d1 == IF c.missing > 0
                   THEN Itoa(c.missing) \o " operations missing operation ID" ELSE ""
             d2 == IF c.duplicate > 0 /\ d1 # ""
                   THEN d1 \o ", " \o Itoa(c.duplicate) \o " duplicate operation IDs"
                   ELSE d1
         IN  IF c.missing > 0 \/ c.duplicate > 0
             THEN Result(ID(rule), FALSE, d2, "", "")
             ELSE Result(ID(rule), TRUE, "All operations have unique operation IDs", "", "")

OperationIDRuleEvaluate(rule, ctx, ord) ==
    IF ctx.Spec.Paths.isNil
    THEN Result(ID(rule), TRUE, "No paths to check", "", "")
    ELSE LET c == OperationIDLoop(AllOperations(ctx.Spec.Paths, ord.paths),
                                  [seen |-> {}, missing |-> 0, duplicate |-> 0])
             d1 == IF c.missing > 0
                   THEN Itoa(c.missing) \o " operations missing operation ID" ELSE ""
             d2 == IF c.duplicate > 0
                   THEN (IF d1 # "" THEN d1 \o ", " ELSE d1)
                        \o Itoa(c.duplicate) \o " duplicate operation IDs"
                   ELSE d1
         IN  IF c.missing > 0 \/ c.duplicate > 0
             THEN Result(ID(rule), FALSE, d2, "", "")
             ELSE Result(ID(rule), TRUE, "All operations have unique operation IDs", "", "")

(***************************************************************************)
(* SchemaExampleConsistencyRule                                            *)
(***************************************************************************)
\* the depth beyond which checkSchemaExamplesWithDepth returns at once
DepthLimit == 10

\* how many issues the detail lists
DetailIssues == 3

isExampleValidForType(example, schemaType) ==
    CASE schemaType = "string" -> example.kind = "string"
      [] schemaType = "integer" ->
            IF example.kind \in {"int", "int32", "int64", "float64"}
            THEN (IF example.kind = "float64" THEN example.integral ELSE TRUE)
            ELSE FALSE
      [] schemaType = "number" ->
            example.kind \in {"int", "int32", "int64", "float32", "float64"}
      [] schemaType = "boolean" -> example.kind = "bool"
      [] schemaType = "array" -> example.kind = "slice"
      [] schemaType = "object" -> example.kind = "map"
      [] OTHER -> TRUE

\* the visited map: the keys it holds and those whose value is true
NoneVisited == [keys |-> {}, on |-> {}]

\* "Check direct example": the issue of one node, if any
DirectIssue(node, currentPath) ==
    IF ~node.Example.isNil /\ node.Type # ""
       /\ ~isExampleValidForType(node.Example, node.Type)
    THEN << currentPath \o ": " \o node.Type \o " example " \o node.Example.text
            \o " doesn't match type " \o node.Type >>
    ELSE <<>>

\* Returns [issues, visited]: the issues found and the visited map as the call
\* leaves it (the deferred function has cleared the node's own mark).
RECURSIVE checkSchemaExamplesWithDepth(_, _, _, _, _, _, _)
RECURSIVE PropertiesLoop(_, _, _, _, _, _, _, _)
checkSchemaExamplesWithDepth(doc, ord, schemaName, schema, path, depth, visited) ==
    IF depth > DepthLimit \/ schema \in visited.on
    THEN [issues |-> <<>>, visited |-> visited]
    ELSE LET node == doc.heap[schema]
             marked == [keys |-> visited.keys \cup {schema}, on |-> visited.on \cup {schema}]
             currentPath == IF path # "" THEN schemaName \o "." \o path ELSE schemaName
             direct == DirectIssue(node, currentPath)
             looped == IF node.Properties.isNil
                       THEN [issues |-> direct, visited |-> marked]
                       ELSE PropertiesLoop(doc, ord, schemaName, schema, path, depth,
                                           ord.props[schema],
                                           [issues |-> direct, visited |-> marked])
         IN  [issues |-> looped.issues,
              visited |-> [looped.visited EXCEPT !.on = @ \ {schema}]]

\* "for propName, propRef := range schema.Properties", over the names left
PropertiesLoop(doc, ord, schemaName, schema, path, depth, names, acc) ==
    IF names = <<>> THEN acc
    ELSE LET propName == Head(names)
             propRef == doc.heap[schema].Properties.items[propName]
             propPath == IF path # "" THEN path \o "." \o propName ELSE propName
             sub == checkSchemaExamplesWithDepth(doc, ord, schemaName, propRef, propPath,
                                                 depth + 1, acc.visited)
         IN  PropertiesLoop(doc, ord, schemaName, schema, path, depth, Tail(names),
                 IF propRef = 0 THEN acc
                 ELSE [issues |-> acc.issues \o sub.issues, visited |-> sub.visited])

\* checkSchemaExamples: a fresh visited map for every named schema
checkSchemaExamples(doc, ord, schemaName, schema, path) ==
    checkSchemaExamplesWithDepth(doc, ord, schemaName, schema, path, 0, NoneVisited).issues

\* "for schemaName, schemaRef := range ctx.Spec.Components.Schemas", over the names left
RECURSIVE SchemasLoop(_, _, _)
SchemasLoop(doc, ord, names) ==
    IF names = <<>> THEN <<>>
    ELSE LET schemaRef == doc.Components.Schemas.items[Head(names)]
         IN  (IF schemaRef # 0 THEN checkSchemaExamples(doc, ord, Head(names), schemaRef, "")
              ELSE <<>>)
             \o SchemasLoop(doc, ord, Tail(names))

\* min giving its second argument whatever the first
min_Second(a, b) == b

\* Helper function for min
min(a, b) == IF a < b THEN a ELSE b

\* strings.Join(elems, sep)
RECURSIVE Join(_, _)
Join(elems, sep) ==
    IF elems = <<>> THEN ""
    ELSE IF Len(elems) = 1 THEN elems[1]
    ELSE elems[1] \o sep \o Join(Tail(elems), sep)

\* the issues collected over all named schemas
SchemaIssues(ctx, ord) ==
    IF ~ctx.Spec.Components.isNil /\ ~ctx.Spec.Components.Schemas.isNil
    THEN SchemasLoop(ctx.Spec, ord, ord.schemas)
    ELSE <<>>

\* the RuleResult Evaluate builds from the issues it collected
SchemaExampleResult(rule, issues) ==
    IF Len(issues) = 0
    THEN Result(ID(rule), TRUE, "All schema examples match their declared types", "", "")
    ELSE Result(ID(rule), FALSE,
                "Found " \o Itoa(Len(issues)) \o " type/example mismatches: "
                \o Join(SubSeq(issues, 1, min(DetailIssues, Len(issues))), "; "),
                "", "")

SchemaExampleConsistencyRuleEvaluate(rule, ctx, ord) ==
    SchemaExampleResult(rule, SchemaIssues(ctx, ord))

(***************************************************************************)
(* OperationDescriptionRule, ErrorResponseRule, SecuritySchemeRule         *)
(***************************************************************************)
IsSpace(c) == c \in {" ", "\t", "\n", "\r"}

\* strings.TrimSpace
RECURSIVE TrimLeft(_)
TrimLeft(s) == IF s # <<>> /\ IsSpace(Head(s)) THEN TrimLeft(Tail(s)) ELSE s

RECURSIVE TrimRight(_)
TrimRight(s) ==
    IF s # <<>> /\ IsSpace(s[Len(s)]) THEN TrimRight(SubSeq(s, 1, Len(s) - 1)) ELSE s

TrimSpace(s) == TrimRight(TrimLeft(s))

\* the shortest description that counts as meaningful
MinDescription == 10

OperationDescriptionRuleEvaluate(rule, ctx, ord) ==
    IF MapLen(ctx.Spec.Paths) = 0
    THEN Result(ID(rule), TRUE, "No paths to check", "", "")
    ELSE LET ops == AllOperations(ctx.Spec.Paths, ord.paths)
             missingDesc == Len(SelectSeq(ops, LAMBDA op : op.Description = <<>>))
             shortDesc == Len(SelectSeq(ops, LAMBDA op : op.Description # <<>>
                                         /\ Len(TrimSpace(op.Description)) < MinDescription))
             i1 == IF missingDesc > 0
                   THEN << Itoa(missingDesc) \o " missing descriptions" >> ELSE <<>>
             i2 == IF shortDesc > 0
                   THEN << Itoa(shortDesc) \o " too short (< 10 chars)" >> ELSE <<>>
         IN  IF missingDesc = 0 /\ shortDesc = 0
             THEN Result(ID(rule), TRUE, "All operations have meaningful descriptions", "", "")
             ELSE Result(ID(rule), FALSE, "Description issues: " \o Join(i1 \o i2, ", "), "", "")

ErrorResponseRuleEvaluate(rule, ctx, ord) ==
    IF MapLen(ctx.Spec.Paths) = 0
    THEN Result(ID(rule), TRUE, "No paths to check", "", "")
    ELSE LET ops == AllOperations(ctx.Spec.Paths, ord.paths)
             missing400 == Len(SelectSeq(ops, LAMBDA op : op.Responses.isNil
                                          \/ "400" \notin Keys(op.Responses)))
             missing500 == Len(SelectSeq(ops, LAMBDA op : op.Responses.isNil
                                          \/ "500" \notin Keys(op.Responses)))
             d1 == IF missing400 > 0
                   THEN Itoa(missing400) \o " missing 400 responses" ELSE ""
             d2 == IF missing500 > 0
                   THEN (IF missing400 > 0 THEN d1 \o ", " ELSE d1)
                        \o Itoa(missing500) \o " missing 500 responses"
                   ELSE d1
         IN  IF missing400 = 0 /\ missing500 = 0
             THEN Result(ID(rule), TRUE, "All operations define proper error responses", "", "")
             ELSE Result(ID(rule), FALSE, "Missing error responses: " \o d2,
                         "warning", "error_handling")

\* SecuritySchemeRule.Evaluate taking absent components for nothing to report
SecuritySchemeRuleEvaluate_AbsentPasses(rule, ctx) ==
    IF ctx.Spec.Components.isNil
    THEN Result(ID(rule), TRUE, "0 security schemes defined", "", "")
    ELSE IF ctx.Spec.Components.SecuritySchemes.isNil
            \/ MapLen(ctx.Spec.Components.SecuritySchemes) = 0
    THEN Result(ID(rule), FALSE, "No security schemes defined", "", "")
    ELSE Result(ID(rule), TRUE,
                Itoa(MapLen(ctx.Spec.Components.SecuritySchemes)) \o " security schemes defined",
                "", "")

SecuritySchemeRuleEvaluate(rule, ctx) ==
    IF ctx.Spec.Components.isNil \/ ctx.Spec.Components.SecuritySchemes.isNil
       \/ MapLen(ctx.Spec.Components.SecuritySchemes) = 0
    THEN Result(ID(rule), FALSE, "No security schemes defined", "", "")
    ELSE Result(ID(rule), TRUE,
                Itoa(MapLen(ctx.Spec.Components.SecuritySchemes)) \o " security schemes defined",
                "", "")

\* Evaluate of a rule that is none of the built-ins
OtherRuleEvaluate(rule, ctx) ==
    Result(ID(rule), TRUE, "ok", "info", "other")

\* Rule.Evaluate(ctx), by the dynamic type of the rule
Evaluate(rule, ctx, ord) ==
    CASE rule.kind = "InfoTitleRule" -> InfoTitleRuleEvaluate(rule, ctx)
      [] rule.kind = "InfoVersionRule" -> InfoVersionRuleEvaluate(rule, ctx)
      [] rule.kind = "PathsExistRule" -> PathsExistRuleEvaluate(rule, ctx)
      [] rule.kind = "OperationIDRule" -> OperationIDRuleEvaluate(rule, ctx, ord)
      [] rule.kind = "SchemaExampleConsistencyRule" ->
            SchemaExampleConsistencyRuleEvaluate(rule, ctx, ord)
      [] rule.kind = "OperationDescriptionRule" -> OperationDescriptionRuleEvaluate(rule, ctx, ord)
      [] rule.kind = "ErrorResponseRule" -> ErrorResponseRuleEvaluate(rule, ctx, ord)
      [] rule.kind = "SecuritySchemeRule" -> SecuritySchemeRuleEvaluate(rule, ctx)
      [] OTHER -> OtherRuleEvaluate(rule, ctx)

(***************************************************************************)
(* RuleRegistry                                                            *)
(***************************************************************************)
\* RulesForVersion returning every registered rule, as AllRules does
RulesForVersion_AllRules(registered, version) == registered

\* RulesForVersion: the registered rules that apply, in registration order
RulesForVersion(registered, version) ==
    SelectSeq(registered, LAMBDA rule : AppliesTo(rule, version))

\* GetRuleIndex keeping the last match instead of returning at the first
RECURSIVE GetRuleIndex_Last(_, _, _)
GetRuleIndex_Last(registered, id, i) ==
    IF i > Len(registered) THEN 0
    ELSE LET later == GetRuleIndex_Last(registered, id, i + 1)
         IN  IF later # 0 THEN later
             ELSE IF ID(registered[i]) = id THEN i ELSE 0

\* the position of the rule GetRule returns, 0 for nil
RECURSIVE GetRuleIndex(_, _, _)
GetRuleIndex(registered, id, i) ==
    IF i > Len(registered) THEN 0
    ELSE IF ID(registered[i]) = id THEN i
    ELSE GetRuleIndex(registered, id, i + 1)

\* GetRule: [isNil, at, rule], at being the position of the instance returned
GetRule(registered, id) ==
    LET i == GetRuleIndex(registered, id, 1)
    IN  IF i = 0 THEN [isNil |-> TRUE, at |-> 0, rule |-> Builtin("")]
        ELSE [isNil |-> FALSE, at |-> i, rule |-> registered[i]]

\* the rules registerRules registers, in its order
BuiltinRules ==
    << Builtin("InfoTitleRule"), Builtin("InfoVersionRule"), Builtin("PathsExistRule"),
       Builtin("OperationIDRule"), Builtin("SchemaExampleConsistencyRule"),
       Builtin("OperationDescriptionRule"), Builtin("ErrorResponseRule"),
       Builtin("SecuritySchemeRule") >>

(***************************************************************************)
(* Runner                                                                  *)
(***************************************************************************)
\* Skipped with the skip map never consulted
Skipped_Never(skip, rule) == FALSE

\* "if r.skipRules[rule.ID()] { continue }"
Skipped(skip, rule) == ID(rule) \in skip

\* RunLoop leaving the loop at the first skipped rule (break for continue)
RECURSIVE RunLoop_BreakOnSkip(_, _, _, _)
RunLoop_BreakOnSkip(applicable, skip, ctx, ord) ==
    IF applicable = <<>> THEN <<>>
    ELSE IF ID(Head(applicable)) \in skip THEN <<>>
    ELSE << Evaluate(Head(applicable), ctx, ord) >>
         \o RunLoop_BreakOnSkip(Tail(applicable), skip, ctx, ord)

\* the loop of Run over the applicable rules left
RECURSIVE RunLoop(_, _, _, _)
RunLoop(applicable, skip, ctx, ord) ==
    IF applicable = <<>> THEN <<>>
    ELSE (IF Skipped(skip, Head(applicable)) THEN <<>>
          ELSE << Evaluate(Head(applicable), ctx, ord) >>)
         \o RunLoop(Tail(applicable), skip, ctx, ord)

\* Runner.Run(spec)
RunResults(registered, skip, ctx, ord) ==
    RunLoop(RulesForVersion(registered, ctx.Version), skip, ctx, ord)

\* Runner.RunRule(spec, ruleID): [result, err], result empty for a nil pointer
RunRuleResult(registered, ctx, ruleID, ord) ==
    LET got == GetRule(registered, ruleID)
    IN  IF got.isNil THEN [result |-> <<>>, err |-> "nil"]
        ELSE IF ~AppliesTo(got.rule, ctx.Version) THEN [result |-> <<>>, err |-> "nil"]
        ELSE [result |-> << Evaluate(got.rule, ctx, ord) >>, err |-> "nil"]

(***************************************************************************)
(* The registry and the runner as a state machine.                         *)
(***************************************************************************)
\* the rules Register is called with one at a time
SingleRules ==
    { Builtin("InfoTitleRule"), Builtin("SecuritySchemeRule"),
      OtherRule("info-title", <<"2", ".">>), OtherRule("swagger-host", <<"2", ".">>) }

\* the skip lists NewRunner is called with
SkipLists ==
    { <<>>, <<"info-title">>, <<"oas3-security-defined", "info-title">>, <<"no-such-rule">> }

\* the rule IDs GetRule and RunRule are asked for
LookupIDs == {"info-title", "oas3-security-defined", "swagger-host", "no-such-rule"}

NoSpec == [loaded |-> FALSE, Spec |-> DocEmpty, Version |-> <<>>]

NoCall == [op |-> "none", arg |-> <<>>, val |-> <<>>]

RegistryInit ==
    /\ rules = <<>>
    /\ skipRules = {}
    /\ runner = FALSE
    /\ specCtx = NoSpec
    /\ out = NoCall

\* RuleRegistry.Register(rule)
Register(rule) ==
    /\ ~runner
    /\ Len(rules) < MaxRules
    /\ rules' = Append(rules, rule)
    /\ out' = NoCall
    /\ UNCHANGED <<skipRules, runner, specCtx>>
    /\ UNCHANGED <<graderVars, travVars, exitVars, cliVars, exampleVars, concurrentVars>>

\* registerRules(registry)
registerRules ==
    /\ ~runner
    /\ Len(rules) <= MaxRules
    /\ rules' = rules \o BuiltinRules
    /\ out' = NoCall
    /\ UNCHANGED <<skipRules, runner, specCtx>>
    /\ UNCHANGED <<graderVars, travVars, exitVars, cliVars, exampleVars, concurrentVars>>

\* runner.NewRunner(registry, skipRules)
NewRunner(skipList) ==
    /\ ~runner
    /\ runner' = TRUE
    /\ skipRules' = {skipList[i] : i \in DOMAIN skipList}
    /\ out' = NoCall
    /\ UNCHANGED <<rules, specCtx>>
    /\ UNCHANGED <<graderVars, travVars, exitVars, cliVars, exampleVars, concurrentVars>>

\* specLoader.Load and the SpecContext built from it
Load(doc, version) ==
    /\ ~specCtx.loaded
    /\ specCtx' = [loaded |-> TRUE, Spec |-> doc, Version |-> version]
    /\ out' = NoCall
    /\ UNCHANGED <<rules, skipRules, runner>>
    /\ UNCHANGED <<graderVars, travVars, exitVars, cliVars, exampleVars, concurrentVars>>

\* Run emptying the runner's skip map once it has used it
Run_ClearsSkips(ord) ==
    /\ runner
    /\ specCtx.loaded
    /\ out' = [op |-> "Run", arg |-> <<>>, val |-> RunResults(rules, skipRules, specCtx, ord)]
    /\ skipRules' = {}
    /\ UNCHANGED <<rules, runner, specCtx>>
    /\ UNCHANGED <<graderVars, travVars, exitVars, cliVars, exampleVars, concurrentVars>>

\* Runner.Run(specContext)
Run(ord) ==
    /\ runner
    /\ specCtx.loaded
    /\ out' = [op |-> "Run", arg |-> <<>>, val |-> RunResults(rules, skipRules, specCtx, ord)]
    /\ UNCHANGED <<rules, skipRules, runner, specCtx>>
    /\ UNCHANGED <<graderVars, travVars, exitVars, cliVars, exampleVars, concurrentVars>>

\* Runner.RunRule(specContext, ruleID)
RunRule(ruleID, ord) ==
    /\ runner
    /\ specCtx.loaded
    /\ out' = [op |-> "RunRule", arg |-> ruleID,
               val |-> RunRuleResult(rules, specCtx, ruleID, ord)]
    /\ UNCHANGED <<rules, skipRules, runner, specCtx>>
    /\ UNCHANGED <<graderVars, travVars, exitVars, cliVars, exampleVars, concurrentVars>>

\* RuleRegistry.GetRule(id)
CallGetRule(id) ==
    /\ out' = [op |-> "GetRule", arg |-> id, val |-> GetRule(rules, id)]
    /\ UNCHANGED <<rules, skipRules, runner, specCtx>>
    /\ UNCHANGED <<graderVars, travVars, exitVars, cliVars, exampleVars, concurrentVars>>

\* RuleRegistry.RulesForVersion(version)
CallRulesForVersion(version) ==
    /\ out' = [op |-> "RulesForVersion", arg |-> version,
               val |-> RulesForVersion(rules, version)]
    /\ UNCHANGED <<rules, skipRules, runner, specCtx>>
    /\ UNCHANGED <<graderVars, travVars, exitVars, cliVars, exampleVars, concurrentVars>>

(***************************************************************************)
(* SchemaExampleConsistencyRule.Evaluate one step at a time: the range     *)
(* over the named schemas and the calls of checkSchemaExamplesWithDepth,   *)
(* each call a frame of the stack.                                         *)
(***************************************************************************)
\* frames the goroutine stack holds; a call beyond it ends the program with the
\* runtime's fatal "stack overflow"
MaxStack == 16

\* the documents the stepwise evaluation is started on
TraverseDocs ==
    {DocEmpty, DocMismatch, DocGood, DocBare, DocCircularRef, DocDeepNesting, DocDiamond}

\* a frame of checkSchemaExamplesWithDepth at its entry
Frame(schemaName, schema, path, depth) ==
    [schemaName |-> schemaName, schema |-> schema, path |-> path, depth |-> depth,
     pc |-> "entry", names |-> <<>>, issues |-> <<>>]

NoResult == Result("", FALSE, "", "", "")

\* the guard of checkSchemaExamplesWithDepth with neither test
Stops_Never(depth, schema, visited) == FALSE

\* the guard of checkSchemaExamplesWithDepth stopping one level early
Stops_AtLimit(depth, schema, visited) == depth >= DepthLimit \/ schema \in visited.on

\* the guard of checkSchemaExamplesWithDepth without the visited test
Stops_DepthOnly(depth, schema, visited) == depth > DepthLimit

\* "if depth > 10 || visited[schema]"
Stops(depth, schema, visited) == depth > DepthLimit \/ schema \in visited.on

\* the deferred function left out: the mark stays
Unmark_Kept(visited, schema) == visited

\* "defer func() { visited[schema] = false }()": run when the call returns
Unmark(visited, schema) == [visited EXCEPT !.on = @ \ {schema}]

TraverseIdle ==
    /\ travPc = "idle"
    /\ travNames = <<>>
    /\ travIssues = <<>>
    /\ travStack = <<>>
    /\ travVisited = NoneVisited
    /\ travResult = NoResult

TraverseInit ==
    /\ travCtx \in {[loaded |-> TRUE, Spec |-> doc, Version |-> V310] : doc \in TraverseDocs}
    /\ travOrd \in Orders(travCtx.Spec)
    /\ TraverseIdle

\* the innermost frame
Top == travStack[Len(travStack)]

\* a call returns ret: the caller appends it to its issues
ReturnTo(ret) ==
    LET rest == SubSeq(travStack, 1, Len(travStack) - 1)
    IN  IF rest = <<>>
        THEN /\ travStack' = <<>>
             /\ travIssues' = travIssues \o ret
        ELSE /\ travStack' = [rest EXCEPT ![Len(rest)].issues = @ \o ret]
             /\ UNCHANGED travIssues

\* Evaluate is called: issues := []string{} and the range over the schemas begins
EvaluateEnter ==
    /\ travPc = "idle"
    /\ travPc' = "range"
    /\ travIssues' = <<>>
    /\ travNames' = IF ~travCtx.Spec.Components.isNil /\ ~travCtx.Spec.Components.Schemas.isNil
                    THEN travOrd.schemas ELSE <<>>
    /\ UNCHANGED <<travCtx, travOrd, travStack, travVisited, travResult>>
    /\ UNCHANGED <<registryVars, graderVars, exitVars, cliVars, exampleVars, concurrentVars>>

\* one iteration of the range over Components.Schemas: checkSchemaExamples is
\* called, with a fresh visited map, when the reference has a Value
RangeSchemas ==
    /\ travPc = "range"
    /\ travStack = <<>>
    /\ travNames # <<>>
    /\ LET schemaName == Head(travNames)
           schemaRef == travCtx.Spec.Components.Schemas.items[schemaName]
       IN  IF schemaRef # 0
           THEN /\ travStack' = << Frame(schemaName, schemaRef, "", 0) >>
                /\ travVisited' = NoneVisited
           ELSE UNCHANGED <<travStack, travVisited>>
    /\ travNames' = Tail(travNames)
    /\ UNCHANGED <<travCtx, travOrd, travPc, travIssues, travResult>>
    /\ UNCHANGED <<registryVars, graderVars, exitVars, cliVars, exampleVars, concurrentVars>>

\* checkSchemaExamplesWithDepth from its entry to the range over the properties:
\* the guard, the mark, the direct example
Enter ==
    /\ travPc = "range"
    /\ travStack # <<>>
    /\ Top.pc = "entry"
    /\ IF Stops(Top.depth, Top.schema, travVisited)
       THEN /\ ReturnTo(<<>>)
            /\ UNCHANGED travVisited
       ELSE LET node == travCtx.Spec.heap[Top.schema]
                currentPath == IF Top.path # "" THEN Top.schemaName \o "." \o Top.path
                               ELSE Top.schemaName
            IN  /\ travVisited' = [keys |-> travVisited.keys \cup {Top.schema},
                                   on |-> travVisited.on \cup {Top.schema}]
                /\ travStack' = [travStack EXCEPT ![Len(travStack)] =
                                    [@ EXCEPT !.pc = "loop",
                                              !.issues = DirectIssue(node, currentPath),
                                              !.names = IF node.Properties.isNil THEN <<>>
                                                        ELSE travOrd.props[Top.schema]]]
                /\ UNCHANGED travIssues
    /\ UNCHANGED <<travCtx, travOrd, travPc, travNames, travResult>>
    /\ UNCHANGED <<registryVars, graderVars, exitVars, cliVars, exampleVars, concurrentVars>>

\* one iteration of the range over schema.Properties: the recursive call when
\* the reference has a Value
RangeProperties ==
    /\ travPc = "range"
    /\ travStack # <<>>
    /\ Top.pc = "loop"
    /\ Top.names # <<>>
    /\ LET propName == Head(Top.names)
           propRef == travCtx.Spec.heap[Top.schema].Properties.items[propName]
           propPath == IF Top.path # "" THEN Top.path \o "." \o propName ELSE propName
           advanced == [travStack EXCEPT ![Len(travStack)].names = Tail(@)]
       IN  IF propRef = 0
           THEN /\ travStack' = advanced
                /\ UNCHANGED travPc
           ELSE IF Len(travStack) >= MaxStack
           THEN /\ travPc' = "overflow"
                /\ UNCHANGED travStack
           ELSE /\ travStack' = Append(advanced,
                                       Frame(Top.schemaName, propRef, propPath, Top.depth + 1))
                /\ UNCHANGED travPc
    /\ UNCHANGED <<travCtx, travOrd, travNames, travIssues, travVisited, travResult>>
    /\ UNCHANGED <<registryVars, graderVars, exitVars, cliVars, exampleVars, concurrentVars>>

\* checkSchemaExamplesWithDepth returns its issues; the deferred function
\* clears the node's mark
Return ==
    /\ travPc = "range"
    /\ travStack # <<>>
    /\ Top.pc = "loop"
    /\ Top.names = <<>>
    /\ travVisited' = Unmark(travVisited, Top.schema)
    /\ ReturnTo(Top.issues)
    /\ UNCHANGED <<travCtx, travOrd, travPc, travNames, travResult>>
    /\ UNCHANGED <<registryVars, graderVars, exitVars, cliVars, exampleVars, concurrentVars>>

\* the range over the schemas is over: Evaluate returns its RuleResult
EvaluateReturn ==
    /\ travPc = "range"
    /\ travStack = <<>>
    /\ travNames = <<>>
    /\ travResult' = SchemaExampleResult(Builtin("SchemaExampleConsistencyRule"), travIssues)
    /\ travPc' = "returned"
    /\ UNCHANGED <<travCtx, travOrd, travNames, travIssues, travStack, travVisited>>
    /\ UNCHANGED <<registryVars, graderVars, exitVars, cliVars, exampleVars, concurrentVars>>

(***************************************************************************)
(* Evaluate calls in several goroutines on one SpecContext: each goroutine *)
(* either evaluates one of the rules that keep no state between the steps  *)
(* of a call, or steps through SchemaExampleConsistencyRule.Evaluate with  *)
(* the visited map its checkSchemaExamples call made.                      *)
(***************************************************************************)
\* the goroutines evaluating at the same time
MaxGoroutines == 2

Goroutines == 1..MaxGoroutines

\* the documents the goroutines share
ConcurrentDocs == {DocGood, DocDiamond, DocCycleMismatch}

\* a goroutine's Evaluate call before it starts
IdleEval ==
    [pc |-> "idle", rule |-> Builtin(""), names |-> <<>>, issues |-> <<>>, stack |-> <<>>,
     result |-> NoResult]

\* one visited map for all the calls, whichever goroutine makes them
NewVisited_OfRule(g) == 1

\* "visited := make(map[*openapi3.Schema]bool)": the map of the call made in
\* goroutine g, which no other call holds
NewVisited(g) == g

ConcurrentInit ==
    /\ conCtx \in {[loaded |-> TRUE, Spec |-> doc, Version |-> V310] : doc \in ConcurrentDocs}
    /\ conOrd \in [Goroutines -> Orders(conCtx.Spec)]
    /\ conEval = [g \in Goroutines |-> IdleEval]
    /\ conVisited = [g \in Goroutines |-> NoneVisited]

\* the innermost frame of goroutine g
GoTop(g) == conEval[g].stack[Len(conEval[g].stack)]

\* the visited map the call in goroutine g works on
GoVisited(g) == conVisited[NewVisited(g)]

\* the innermost call of an evaluation returns ret to its caller
Returned(eval, ret) ==
    LET rest == SubSeq(eval.stack, 1, Len(eval.stack) - 1)
    IN  IF rest = <<>>
        THEN [eval EXCEPT !.stack = <<>>, !.issues = @ \o ret]
        ELSE [eval EXCEPT !.stack = [rest EXCEPT ![Len(rest)].issues = @ \o ret]]

\* goroutine g calls Evaluate of a rule other than the schema-example rule
GoEvaluateRule(g, rule) ==
    /\ conEval[g].pc = "idle"
    /\ rule.kind # "SchemaExampleConsistencyRule"
    /\ conEval' = [conEval EXCEPT ![g] = [@ EXCEPT !.pc = "returned", !.rule = rule,
                                                   !.result = Evaluate(rule, conCtx, conOrd[g])]]
    /\ UNCHANGED <<conCtx, conOrd, conVisited>>
    /\ UNCHANGED <<registryVars, graderVars, travVars, exitVars, cliVars, exampleVars>>

\* goroutine g calls SchemaExampleConsistencyRule.Evaluate
GoEvaluateEnter(g) ==
    /\ conEval[g].pc = "idle"
    /\ conEval' = [conEval EXCEPT ![g] =
                      [@ EXCEPT !.pc = "range",
                                !.rule = Builtin("SchemaExampleConsistencyRule"),
                                !.issues = <<>>,
                                !.names = IF ~conCtx.Spec.Components.isNil
                                             /\ ~conCtx.Spec.Components.Schemas.isNil
                                          THEN conOrd[g].schemas ELSE <<>>]]
    /\ UNCHANGED <<conCtx, conOrd, conVisited>>
    /\ UNCHANGED <<registryVars, graderVars, travVars, exitVars, cliVars, exampleVars>>

\* one iteration of goroutine g's range over Components.Schemas
GoRangeSchemas(g) ==
    /\ conEval[g].pc = "range"
    /\ conEval[g].stack = <<>>
    /\ conEval[g].names # <<>>
    /\ LET schemaName == Head(conEval[g].names)
           schemaRef == conCtx.Spec.Components.Schemas.items[schemaName]
       IN  IF schemaRef # 0
           THEN /\ conEval' = [conEval EXCEPT ![g] =
                                  [@ EXCEPT !.names = Tail(@),
                                            !.stack = << Frame(schemaName, schemaRef, "", 0) >>]]
                /\ conVisited' = [conVisited EXCEPT ![NewVisited(g)] = NoneVisited]
           ELSE /\ conEval' = [conEval EXCEPT ![g].names = Tail(@)]
                /\ UNCHANGED conVisited
    /\ UNCHANGED <<conCtx, conOrd>>
    /\ UNCHANGED <<registryVars, graderVars, travVars, exitVars, cliVars, exampleVars>>

\* goroutine g's innermost call from its entry to the range over the properties
GoEnter(g) ==
    /\ conEval[g].pc = "range"
    /\ conEval[g].stack # <<>>
    /\ GoTop(g).pc = "entry"
    /\ IF Stops(GoTop(g).depth, GoTop(g).schema, GoVisited(g))
       THEN /\ conEval' = [conEval EXCEPT ![g] = Returned(@, <<>>)]
            /\ UNCHANGED conVisited
       ELSE LET node == conCtx.Spec.heap[GoTop(g).schema]
                currentPath == IF GoTop(g).path # ""
                               THEN GoTop(g).schemaName \o "." \o GoTop(g).path
                               ELSE GoTop(g).schemaName
            IN  /\ conVisited' = [conVisited EXCEPT ![NewVisited(g)] =
                                     [keys |-> @.keys \cup {GoTop(g).schema},
                                      on |-> @.on \cup {GoTop(g).schema}]]
                /\ conEval' = [conEval EXCEPT ![g].stack[Len(conEval[g].stack)] =
                                  [@ EXCEPT !.pc = "loop",
                                            !.issues = DirectIssue(node, currentPath),
                                            !.names = IF node.Properties.isNil THEN <<>>
                                                      ELSE conOrd[g].props[GoTop(g).schema]]]
    /\ UNCHANGED <<conCtx, conOrd>>
    /\ UNCHANGED <<registryVars, graderVars, travVars, exitVars, cliVars, exampleVars>>

\* one iteration of goroutine g's range over schema.Properties
GoRangeProperties(g) ==
    /\ conEval[g].pc = "range"
    /\ conEval[g].stack # <<>>
    /\ GoTop(g).pc = "loop"
    /\ GoTop(g).names # <<>>
    /\ LET propName == Head(GoTop(g).names)
           propRef == conCtx.Spec.heap[GoTop(g).schema].Properties.items[propName]
           propPath == IF GoTop(g).path # "" THEN GoTop(g).path \o "." \o propName
                       ELSE propName
           advanced == [conEval[g].stack EXCEPT ![Len(conEval[g].stack)].names = Tail(@)]
       IN  conEval' = [conEval EXCEPT ![g] =
               IF propRef = 0 THEN [@ EXCEPT !.stack = advanced]
               ELSE IF Len(@.stack) >= MaxStack THEN [@ EXCEPT !.pc = "overflow"]
               ELSE [@ EXCEPT !.stack = Append(advanced,
                                               Frame(GoTop(g).schemaName, propRef, propPath,
                                                     GoTop(g).depth + 1))]]
    /\ UNCHANGED <<conCtx, conOrd, conVisited>>
    /\ UNCHANGED <<registryVars, graderVars, travVars, exitVars, cliVars, exampleVars>>

\* goroutine g's innermost call returns; its deferred function clears the mark
GoReturn(g) ==
    /\ conEval[g].pc = "range"
    /\ conEval[g].stack # <<>>
    /\ GoTop(g).pc = "loop"
    /\ GoTop(g).names = <<>>
    /\ conVisited' = [conVisited EXCEPT ![NewVisited(g)] = Unmark(@, GoTop(g).schema)]
    /\ conEval' = [conEval EXCEPT ![g] = Returned(@, GoTop(g).issues)]
    /\ UNCHANGED <<conCtx, conOrd>>
    /\ UNCHANGED <<registryVars, graderVars, travVars, exitVars, cliVars, exampleVars>>

\* goroutine g's Evaluate returns its RuleResult
GoEvaluateReturn(g) ==
    /\ conEval[g].pc = "range"
    /\ conEval[g].stack = <<>>
    /\ conEval[g].names = <<>>
    /\ conEval' = [conEval EXCEPT ![g] =
                      [@ EXCEPT !.pc = "returned",
                                !.result = SchemaExampleResult(conEval[g].rule,
                                                               conEval[g].issues)]]
    /\ UNCHANGED <<conCtx, conOrd, conVisited>>
    /\ UNCHANGED <<registryVars, graderVars, travVars, exitVars, cliVars, exampleVars>>

(***************************************************************************)
(* The reporter's report and the CI exit handler.  The strings whose       *)
(* characters the code maps (a grade, a threshold, an output format) are   *)
(* sequences of characters.                                                *)
(***************************************************************************)
\* Reporter.GenerateReport(version, results): the fields the command reads
GenerateReport(version, results) ==
    [Version |-> version, Grade |-> Grade(results), Score |-> CalculateScore(results),
     Rules |-> results]

LowerCase ==
    <<"a", "b", "c", "d", "e", "f", "g", "h", "i", "j", "k", "l", "m",
      "n", "o", "p", "q", "r", "s", "t", "u", "v", "w", "x", "y", "z">>

UpperCase ==
    <<"A", "B", "C", "D", "E", "F", "G", "H", "I", "J", "K", "L", "M",
      "N", "O", "P", "Q", "R", "S", "T", "U", "V", "W", "X", "Y", "Z">>

\* the character c of the alphabet from, replaced by the one at its place in to
MapChar(c, from, to) ==
    IF \E i \in DOMAIN from : from[i] = c
    THEN to[CHOOSE i \in DOMAIN from : from[i] = c]
    ELSE c

\* strings.ToUpper and strings.ToLower
ToUpper(s) == [i \in 1..Len(s) |-> MapChar(s[i], LowerCase, UpperCase)]

ToLower(s) == [i \in 1..Len(s) |-> MapChar(s[i], UpperCase, LowerCase)]

\* the characters of a letter returned by Grade
Chars(letter) ==
    CASE letter = "A+" -> <<"A", "+">>
      [] letter = "A" -> <<"A">>
      [] letter = "A-" -> <<"A", "-">>
      [] letter = "B+" -> <<"B", "+">>
      [] letter = "B" -> <<"B">>
      [] letter = "B-" -> <<"B", "-">>
      [] letter = "C+" -> <<"C", "+">>
      [] letter = "C" -> <<"C">>
      [] letter = "C-" -> <<"C", "-">>
      [] letter = "D" -> <<"D">>
      [] letter = "F" -> <<"F">>
      [] OTHER -> <<>>

\* the grade table holding only the eight letters of the README's Grade Scale
gradeValues_ReadmeScale ==
    [g \in {Chars(l) : l \in {"A+", "A", "B+", "B", "C+", "C", "D", "F"}} |->
        CASE g = <<"A", "+">> -> 12
          [] g = <<"A">> -> 11
          [] g = <<"B", "+">> -> 9
          [] g = <<"B">> -> 8
          [] g = <<"C", "+">> -> 6
          [] g = <<"C">> -> 5
          [] g = <<"D">> -> 3
          [] OTHER -> 0]

\* "Grade hierarchy (higher is better)"
gradeValues ==
    [g \in {Chars(l) : l \in {"A+", "A", "A-", "B+", "B", "B-", "C+", "C", "C-", "D", "F"}} |->
        CASE g = <<"A", "+">> -> 12
          [] g = <<"A">> -> 11
          [] g = <<"A", "-">> -> 10
          [] g = <<"B", "+">> -> 9
          [] g = <<"B">> -> 8
          [] g = <<"B", "-">> -> 7
          [] g = <<"C", "+">> -> 6
          [] g = <<"C">> -> 5
          [] g = <<"C", "-">> -> 4
          [] g = <<"D">> -> 3
          [] OTHER -> 0]

\* ci.NewExitHandler(failThreshold)
NewExitHandler(failThreshold) == [isNil |-> FALSE, failThreshold |-> ToUpper(failThreshold)]

\* Handle succeeding only for a grade strictly above the threshold
Handle_StrictlyAbove(e, grade) ==
    IF ToUpper(grade) \notin DOMAIN gradeValues THEN 1
    ELSE IF e.failThreshold \notin DOMAIN gradeValues THEN 1
    ELSE IF gradeValues[ToUpper(grade)] > gradeValues[e.failThreshold] THEN 0
    ELSE 1

\* ExitHandler.Handle(grade)
Handle(e, grade) ==
    IF ToUpper(grade) \notin DOMAIN gradeValues THEN 1
    ELSE IF e.failThreshold \notin DOMAIN gradeValues THEN 1
    ELSE IF gradeValues[ToUpper(grade)] >= gradeValues[e.failThreshold] THEN 0
    ELSE 1

\* the thresholds the handler is built with and the grades it is handed
ExitInputs ==
    {Chars(l) : l \in {"A+", "A", "A-", "B+", "B", "B-", "C+", "C", "C-", "D", "F"}}
    \cup {<<"a", "+">>, <<"b">>, <<"b", "-">>, <<"c", "+">>, <<"d">>, <<"f">>}
    \cup {<<>>, <<"E">>, <<"A", "+", "+">>, <<"D", "-">>, <<"P", "A", "S", "S">>}

\* ci.NewExitHandler(failThreshold), called once
BuildExitHandler(failThreshold) ==
    /\ exitHandler.isNil
    /\ exitHandler' = NewExitHandler(failThreshold)
    /\ UNCHANGED exitOut
    /\ UNCHANGED <<registryVars, graderVars, travVars, cliVars, exampleVars, concurrentVars>>

\* exitHandler.Handle(grade)
CallHandle(grade) ==
    /\ ~exitHandler.isNil
    /\ exitOut' = [called |-> TRUE, grade |-> grade, code |-> Handle(exitHandler, grade)]
    /\ UNCHANGED exitHandler
    /\ UNCHANGED <<registryVars, graderVars, travVars, cliVars, exampleVars, concurrentVars>>

(***************************************************************************)
(* The command: the flag variables and runSpecGrade.                       *)
(***************************************************************************)
V300 == <<"3", ".", "0", ".", "0">>

\* versions.IsValidVersion: the keys of VersionToSchemaURL
IsValidVersion(version) == version \in {V300, V310}

FormatJson == <<"j", "s", "o", "n">>

FormatCli == <<"c", "l", "i">>

FormatHtml == <<"h", "t", "m", "l">>

FormatMarkdown == <<"m", "a", "r", "k", "d", "o", "w", "n">>

FormatDeveloper == <<"d", "e", "v", "e", "l", "o", "p", "e", "r">>

\* the flag variables before the command line is parsed: the flags' defaults
NoFlags ==
    [parsed |-> FALSE, specVersion |-> <<>>, targetDir |-> "", outputFormat |-> <<>>,
     failThreshold |-> <<>>, skipRules |-> <<>>, generateDocs |-> FALSE]

\* the command lines the command is started with; --skip is given by the IDs
\* its comma-separated fields hold
FlagSets ==
    [parsed : {TRUE},
     specVersion : {<<>>, V300, V20},
     targetDir : {"", "./specs"},
     outputFormat : {<<>>, FormatJson, <<"J", "S", "O", "N">>, FormatCli, FormatHtml,
                     FormatMarkdown, FormatDeveloper, <<"x", "m", "l">>},
     failThreshold : {<<>>, <<"A">>, <<"f">>},
     skipRules : {<<>>, <<"info-title", "oas3-security-defined">>},
     generateDocs : BOOLEAN]

\* utils.LoadConfig without a config file: the default config
DefaultConfig ==
    [failed |-> FALSE, SpecVersion |-> V310, InputDir |-> "", OutputFormat |-> FormatCli,
     FailThreshold |-> <<"B">>, SkipRules |-> <<>>]

\* what utils.LoadConfig returns: the default config, the config a
\* specgrade.yaml gives, or an error
LoadedConfigs ==
    { DefaultConfig,
      [DefaultConfig EXCEPT !.InputDir = "./api", !.OutputFormat = FormatDeveloper,
                            !.FailThreshold = <<"c">>, !.SkipRules = <<"paths-exist">>],
      [DefaultConfig EXCEPT !.failed = TRUE] }

\* utils.MergeConfigWithFlags(config, flags)
MergeConfigWithFlags(config, flagsConfig) ==
    [failed |-> config.failed,
     SpecVersion |-> IF flagsConfig.SpecVersion # <<>> THEN flagsConfig.SpecVersion
                     ELSE config.SpecVersion,
     InputDir |-> IF flagsConfig.InputDir # "" THEN flagsConfig.InputDir ELSE config.InputDir,
     OutputFormat |-> IF flagsConfig.OutputFormat # <<>> THEN flagsConfig.OutputFormat
                      ELSE config.OutputFormat,
     FailThreshold |-> IF flagsConfig.FailThreshold # <<>> THEN flagsConfig.FailThreshold
                       ELSE config.FailThreshold,
     SkipRules |-> IF Len(flagsConfig.SkipRules) > 0 THEN flagsConfig.SkipRules
                   ELSE config.SkipRules]

\* "Set defaults if not specified"
WithDefaults(config) ==
    [config EXCEPT
        !.SpecVersion = IF @ = <<>> THEN V310 ELSE @,
        !.OutputFormat = IF @ = <<>> THEN FormatCli ELSE @,
        !.FailThreshold = IF @ = <<>> THEN <<"B">> ELSE @]

\* what specLoader.Load returns: a document, or an error
LoadedSpecs == [failed : {FALSE}, doc : Docs] \cup {[failed |-> TRUE, doc |-> DocEmpty]}

NoReport == [Version |-> <<>>, Grade |-> "", Score |-> 0, Rules |-> <<>>]

\* how the command ended: the error runSpecGrade returned, what it printed, and
\* the exit status of the process (1 when main sees an error)
Ended(config, graded, report, output, err, exitCode) ==
    [ran |-> TRUE, config |-> config, graded |-> graded, report |-> report,
     output |-> output, err |-> err, exitCode |-> exitCode]

NotRun == [ran |-> FALSE, config |-> DefaultConfig, graded |-> FALSE, report |-> NoReport,
           output |-> "", err |-> "", exitCode |-> 0]

\* "Output report in requested format": the formatter the switch selects, ""
\* for the default branch
SelectFormat(outputFormat) ==
    CASE ToLower(outputFormat) = FormatJson -> "FormatJSON"
      [] ToLower(outputFormat) = FormatMarkdown -> "FormatMarkdown"
      [] ToLower(outputFormat) = FormatHtml -> "FormatHTML"
      [] ToLower(outputFormat) = FormatCli -> "FormatCLI"
      [] OTHER -> ""

\* the flag variables are set from the command line
ParseFlags(given) ==
    /\ ~flags.parsed
    /\ flags' = given
    /\ UNCHANGED cliOut
    /\ UNCHANGED <<registryVars, graderVars, travVars, exitVars, exampleVars, concurrentVars>>

\* runSpecGrade(cmd, args), with what LoadConfig and specLoader.Load return and
\* the map iteration orders of the run
runSpecGrade(config, loaded, ord) ==
    /\ flags.parsed
    /\ ~cliOut.ran
    /\ LET flagsConfig == [SpecVersion |-> flags.specVersion, InputDir |-> flags.targetDir,
                           OutputFormat |-> flags.outputFormat,
                           FailThreshold |-> flags.failThreshold,
                           SkipRules |-> flags.skipRules]
           merged == MergeConfigWithFlags(config, flagsConfig)
           finalConfig == WithDefaults(merged)
           skip == {finalConfig.SkipRules[i] : i \in DOMAIN finalConfig.SkipRules}
           specContext == [loaded |-> TRUE, Spec |-> loaded.doc, Version |-> finalConfig.SpecVersion]
           results == RunResults(BuiltinRules, skip, specContext, ord)
           report == GenerateReport(finalConfig.SpecVersion, results)
           format == SelectFormat(finalConfig.OutputFormat)
           exitCode == Handle(NewExitHandler(finalConfig.FailThreshold), Chars(report.Grade))
       IN  cliOut' =
             IF config.failed
             THEN Ended(DefaultConfig, FALSE, NoReport, "", "failed to load config", 1)
             ELSE IF merged.InputDir = ""
             THEN Ended(merged, FALSE, NoReport, "", "target directory is required", 1)
             ELSE IF ~IsValidVersion(finalConfig.SpecVersion)
             THEN Ended(finalConfig, FALSE, NoReport, "", "unsupported OpenAPI version", 1)
             ELSE IF flags.generateDocs
             THEN Ended(finalConfig, FALSE, NoReport, "generateRuleDocumentation", "", 0)
             ELSE IF loaded.failed
             THEN Ended(finalConfig, FALSE, NoReport, "", "failed to load OpenAPI spec", 1)
             ELSE IF format = ""
             THEN Ended(finalConfig, TRUE, report, "", "unsupported output format", 1)
             ELSE Ended(finalConfig, TRUE, report, format, "", exitCode)
    /\ UNCHANGED flags
    /\ UNCHANGED <<registryVars, graderVars, travVars, exitVars, exampleVars, concurrentVars>>

(***************************************************************************)
(* The example check on one schema: "Check direct example" and             *)
(* isExampleValidForType, applied to a declared type and an example value. *)
(***************************************************************************)
\* an example value as the document holds it: its dynamic type, its %v text,
\* whether it has a fractional part, and whether its magnitude is below 2^63
Value(kind, text, fractional, small) ==
    [isNil |-> FALSE, kind |-> kind, text |-> text, fractional |-> fractional, small |-> small]

NoValue == [isNil |-> TRUE, kind |-> "", text |-> "", fractional |-> FALSE, small |-> TRUE]

\* "f == float64(int64(f))": int64(f) drops the fractional part, and for a
\* magnitude of 2^64 or more gives some int64, which converts back to a
\* float64 of magnitude at most 2^63
Float64IsInt64(value) == ~value.fractional /\ value.small

\* the Example of a schema holding the value
ExampleOf(value) ==
    IF value.isNil THEN NoExample
    ELSE Example(value.kind, value.text,
                 IF value.kind = "float64" THEN Float64IsInt64(value) ELSE FALSE)

\* the declared types: none, the six of OpenAPI, and one that is not
SchemaTypes == {"", "string", "integer", "number", "boolean", "array", "object", "null"}

\* the example values: what the loader decodes from JSON or YAML (nil, string,
\* float64, bool, slice, map) and the Go numbers the type switches name
ExampleValues ==
    { NoValue,
      Value("string", "abc", FALSE, TRUE),
      Value("string", "42", FALSE, TRUE),
      Value("float64", "42", FALSE, TRUE),
      Value("float64", "-7", FALSE, TRUE),
      Value("float64", "2.5", TRUE, TRUE),
      Value("float64", "1.8446744073709552e+19", FALSE, FALSE),
      Value("float32", "3", FALSE, TRUE),
      Value("float32", "0.5", TRUE, TRUE),
      Value("int", "5", FALSE, TRUE),
      Value("int32", "6", FALSE, TRUE),
      Value("int64", "7", FALSE, TRUE),
      Value("bool", "true", FALSE, TRUE),
      Value("slice", "[1 2]", FALSE, TRUE),
      Value("map", "map[a:1]", FALSE, TRUE) }

NotChecked == [op |-> "", valid |-> FALSE, issues |-> <<>>]

ExampleInit ==
    /\ exInput \in [type : SchemaTypes, value : ExampleValues]
    /\ exOut = NotChecked

ExampleNone ==
    /\ exInput = [type |-> "", value |-> NoValue]
    /\ exOut = NotChecked

\* r.isExampleValidForType(schema.Example, schema.Type), called as the code
\* calls it: with an example that is not nil and a type that is not empty
CallIsExampleValidForType ==
    /\ exOut.op = ""
    /\ ~exInput.value.isNil
    /\ exInput.type # ""
    /\ exOut' = [op |-> "isExampleValidForType",
                 valid |-> isExampleValidForType(ExampleOf(exInput.value), exInput.type),
                 issues |-> <<>>]
    /\ UNCHANGED exInput
    /\ UNCHANGED <<registryVars, graderVars, travVars, exitVars, cliVars, concurrentVars>>

\* "Check direct example" on a schema named Item with this type and example
CheckDirectExample ==
    /\ exOut.op = ""
    /\ exOut' = [op |-> "check", valid |-> FALSE,
                 issues |-> DirectIssue(SchemaNode(exInput.type, ExampleOf(exInput.value), NilMap),
                                        "Item")]
    /\ UNCHANGED exInput
    /\ UNCHANGED <<registryVars, graderVars, travVars, exitVars, cliVars, concurrentVars>>

\* no evaluation in progress in the specifications that do not step through one
NoOrder == [schemas |-> <<>>, props |-> <<>>, paths |-> <<>>]

TraverseNone ==
    /\ travCtx = NoSpec
    /\ travOrd = NoOrder
    /\ TraverseIdle

ExitNone ==
    /\ exitHandler = [isNil |-> TRUE, failThreshold |-> <<>>]
    /\ exitOut = [called |-> FALSE, grade |-> <<>>, code |-> 0]

CliNone ==
    /\ flags = NoFlags
    /\ cliOut = NotRun

GraderNone ==
    /\ graderInput = <<>>
    /\ gradeOut = ""
    /\ scoreOut = 0
    /\ gdone = {}

ConcurrentNone ==
    /\ conCtx = NoSpec
    /\ conOrd = [g \in Goroutines |-> NoOrder]
    /\ conEval = [g \in Goroutines |-> IdleEval]
    /\ conVisited = [g \in Goroutines |-> NoneVisited]

InitConcurrent ==
    RegistryInit /\ GraderNone /\ TraverseNone /\ ExitNone /\ CliNone
    /\ ExampleNone /\ ConcurrentInit

NextConcurrent ==
    \E g \in Goroutines :
        \/ \E i \in DOMAIN BuiltinRules : GoEvaluateRule(g, BuiltinRules[i])
        \/ GoEvaluateEnter(g)
        \/ GoRangeSchemas(g)
        \/ GoEnter(g)
        \/ GoRangeProperties(g)
        \/ GoReturn(g)
        \/ GoEvaluateReturn(g)

SpecConcurrent == InitConcurrent /\ [][NextConcurrent]_vars

InitExample ==
    RegistryInit /\ GraderNone /\ TraverseNone /\ ExitNone /\ CliNone
    /\ ExampleInit /\ ConcurrentNone

NextExample == CallIsExampleValidForType \/ CheckDirectExample

SpecExample == InitExample /\ [][NextExample]_vars

Init ==
    RegistryInit /\ GraderNone /\ TraverseNone /\ ExitNone /\ CliNone
    /\ ExampleNone /\ ConcurrentNone

Next ==
    \/ \E rule \in SingleRules : Register(rule)
    \/ registerRules
    \/ \E skipList \in SkipLists : NewRunner(skipList)
    \/ \E doc \in Docs, version \in Versions : Load(doc, version)
    \/ \E ord \in Orders(specCtx.Spec) : Run(ord)
    \/ \E id \in LookupIDs, ord \in Orders(specCtx.Spec) : RunRule(id, ord)
    \/ \E id \in LookupIDs : CallGetRule(id)
    \/ \E version \in Versions : CallRulesForVersion(version)

Spec == Init /\ [][Next]_vars

InitGrader ==
    RegistryInit /\ GraderInit /\ TraverseNone /\ ExitNone /\ CliNone
    /\ ExampleNone /\ ConcurrentNone

NextGrader == CallGrade \/ CallCalculateScore

SpecGrader == InitGrader /\ [][NextGrader]_vars

InitTraverse ==
    RegistryInit /\ GraderNone /\ TraverseInit /\ ExitNone /\ CliNone
    /\ ExampleNone /\ ConcurrentNone

NextTraverse ==
    \/ EvaluateEnter
    \/ RangeSchemas
    \/ Enter
    \/ RangeProperties
    \/ Return
    \/ EvaluateReturn

InitExit ==
    RegistryInit /\ GraderNone /\ TraverseNone /\ ExitNone /\ CliNone
    /\ ExampleNone /\ ConcurrentNone

NextExit ==
    \/ \E failThreshold \in ExitInputs : BuildExitHandler(failThreshold)
    \/ \E grade \in ExitInputs : CallHandle(grade)

SpecExit == InitExit /\ [][NextExit]_vars

InitCLI ==
    RegistryInit /\ GraderNone /\ TraverseNone /\ ExitNone /\ CliNone
    /\ ExampleNone /\ ConcurrentNone

NextCLI ==
    \/ \E given \in FlagSets : ParseFlags(given)
    \/ \E config \in LoadedConfigs, loaded \in LoadedSpecs :
          \E ord \in Orders(loaded.doc) : runSpecGrade(config, loaded, ord)

SpecCLI == InitCLI /\ [][NextCLI]_vars

\* the goroutine that called Evaluate keeps running until Evaluate has returned
SpecTraverse == InitTraverse /\ [][NextTraverse]_vars /\ WF_vars(NextTraverse)

(***************************************************************************)
(* Properties of the grader (checked under SpecGrader).                    *)
(***************************************************************************)
Graded == "Grade" \in gdone

Scored == "CalculateScore" \in gdone

\* the passed and the total count of the result set handed to the grader
PassedCount == Cardinality({i \in DOMAIN graderInput : graderInput[i].Passed})

TotalCount == Len(graderInput)

\* the letter of the exact percentage 100 * p / t, compared as a rational
ExactLetter(p, t) ==
    IF 100 * p >= 95 * t THEN "A+"
    ELSE IF 100 * p >= 90 * t THEN "A"
    ELSE IF 100 * p >= 85 * t THEN "A-"
    ELSE IF 100 * p >= 80 * t THEN "B+"
    ELSE IF 100 * p >= 75 * t THEN "B"
    ELSE IF 100 * p >= 70 * t THEN "B-"
    ELSE IF 100 * p >= 65 * t THEN "C+"
    ELSE IF 100 * p >= 60 * t THEN "C"
    ELSE IF 100 * p >= 55 * t THEN "C-"
    ELSE IF 100 * p >= 50 * t THEN "D"
    ELSE "F"

\* C1: for a non-empty result set Grade is the letter the descending table
\* gives the exact pass percentage, each band inclusive on its lower edge;
\* out of 100 results 49 passed is F, 50 D, 89 A-, 90 A, 94 A, 95 A+.
C1_GradeFollowsTable ==
    (Graded /\ TotalCount > 0) =>
        /\ gradeOut = ExactLetter(PassedCount, TotalCount)
        /\ (TotalCount = 100 /\ PassedCount = 49) => gradeOut = "F"
        /\ (TotalCount = 100 /\ PassedCount = 50) => gradeOut = "D"
        /\ (TotalCount = 100 /\ PassedCount = 89) => gradeOut = "A-"
        /\ (TotalCount = 100 /\ PassedCount = 90) => gradeOut = "A"
        /\ (TotalCount = 100 /\ PassedCount = 94) => gradeOut = "A"
        /\ (TotalCount = 100 /\ PassedCount = 95) => gradeOut = "A+"

\* a band's lower edge met exactly, out of 100 results
C1_Witness == Graded /\ TotalCount = 100 /\ PassedCount = 90 /\ gradeOut = "A"

\* C2: CalculateScore returns an integer between 0 and 100, and 0 for the
\* empty result set.
C2_ScoreInRange ==
    Scored =>
        /\ scoreOut \in 0..100
        /\ graderInput = <<>> => scoreOut = 0

\* a scored result set that mixes passed and failed results
C2_Witness == Scored /\ 0 < PassedCount /\ PassedCount < TotalCount /\ scoreOut > 0

\* C3 (as claimed): for a non-empty result set CalculateScore is the
\* percentage 100 * p / t rounded to the nearest integer.
C3_ScoreIsRounded ==
    (Scored /\ TotalCount > 0) =>
        scoreOut = (200 * PassedCount + TotalCount) \div (2 * TotalCount)

\* the letters of the threshold table
TableLetters == {GradeTable[i][2] : i \in DOMAIN GradeTable} \cup {DefaultLetter}

\* C4 (as claimed): Grade returns one of the twelve defined letters, those of
\* the threshold table, and F for the empty result set.
C4_OneOfTwelveLetters ==
    Graded =>
        /\ gradeOut \in TableLetters
        /\ Cardinality(TableLetters) = 12
        /\ graderInput = <<>> => gradeOut = "F"

\* C4 (amended): Grade returns one of the eleven letters of the threshold
\* table (A+, A, A-, B+, B, B-, C+, C, C-, D, F), never another string, and F
\* for the empty result set.
C4_OneOfElevenLetters ==
    Graded =>
        /\ gradeOut \in {"A+", "A", "A-", "B+", "B", "B-", "C+", "C", "C-", "D", "F"}
        /\ TableLetters = {"A+", "A", "A-", "B+", "B", "B-", "C+", "C", "C-", "D", "F"}
        /\ Cardinality(TableLetters) = 11
        /\ graderInput = <<>> => gradeOut = "F"

\* the empty result set, graded
C4_Witness == Graded /\ graderInput = <<>> /\ gradeOut = "F"

(***************************************************************************)
(* Properties of the registry and the runner (checked under Spec).         *)
(***************************************************************************)
\* the positions of the registered rules that apply to a version
ApplicableAt(version) == {i \in DOMAIN rules : AppliesTo(rules[i], version)}

\* the applicable positions whose rule ID is in the runner's skip set
SkippedAt(version) == {i \in ApplicableAt(version) : ID(rules[i]) \in skipRules}

\* the i-th smallest member of a set of positions
Nth(S, i) == CHOOSE k \in S : Cardinality({j \in S : j <= k}) = i

\* the length of Run with the empty skip set on the loaded spec
UnskippedLength ==
    Len(RunResults(rules, {}, specCtx, CHOOSE ord \in Orders(specCtx.Spec) : TRUE))

\* C5: Run returns one result per applicable rule whose ID is not skipped, the
\* i-th result carrying the ID of the i-th such rule in registration order; its
\* length is |RulesForVersion| minus the applicable rules whose ID is skipped.
C5_RunKeepsEveryUnskippedRule ==
    out.op = "Run" =>
        LET kept == ApplicableAt(specCtx.Version) \ SkippedAt(specCtx.Version)
        IN  /\ Len(out.val) = Cardinality(kept)
            /\ \A i \in 1..Len(out.val) : out.val[i].RuleID = ID(rules[Nth(kept, i)])
            /\ Len(out.val) = Len(RulesForVersion(rules, specCtx.Version))
                              - Cardinality(SkippedAt(specCtx.Version))

\* a run that skipped an applicable rule and kept one registered after it
C5_Witness ==
    /\ out.op = "Run"
    /\ \E i \in SkippedAt(specCtx.Version) :
          \E j \in ApplicableAt(specCtx.Version) \ SkippedAt(specCtx.Version) : i < j
    /\ Len(out.val) >= 2

\* C6 (as claimed): Run with skip set {r} returns no result with ruleId r, and
\* when a registered rule with ID r applies its length is that of Run with the
\* empty skip set minus 1.
C6_SkipRemovesOne ==
    (out.op = "Run" /\ Cardinality(skipRules) = 1) =>
        \A r \in skipRules :
            /\ \A i \in 1..Len(out.val) : out.val[i].RuleID # r
            /\ (\E i \in ApplicableAt(specCtx.Version) : ID(rules[i]) = r)
                  => Len(out.val) = UnskippedLength - 1

\* C6 (amended): Run with skip set {r} returns no result with ruleId r, and its
\* length is that of Run with the empty skip set minus the number of registered
\* rules with ID r that apply to the version.
C6_SkipRemovesEveryRuleWithTheID ==
    (out.op = "Run" /\ Cardinality(skipRules) = 1) =>
        \A r \in skipRules :
            /\ \A i \in 1..Len(out.val) : out.val[i].RuleID # r
            /\ Len(out.val) = UnskippedLength
                  - Cardinality({i \in ApplicableAt(specCtx.Version) : ID(rules[i]) = r})

\* a run whose one skipped ID belongs to two applicable rules
C6_Witness ==
    /\ out.op = "Run"
    /\ Cardinality(skipRules) = 1
    /\ Cardinality(SkippedAt(specCtx.Version)) = 2
    /\ Len(out.val) = UnskippedLength - 2

\* C7: RulesForVersion(v) returns, in registration order, every registered
\* rule instance that applies to v and no other; rules that share an ID all
\* appear.
C7_RulesForVersionKeepsOrderAndDuplicates ==
    out.op = "RulesForVersion" =>
        /\ Len(out.val) = Cardinality(ApplicableAt(out.arg))
        /\ \A i \in 1..Len(out.val) : out.val[i] = rules[Nth(ApplicableAt(out.arg), i)]

\* two registered rules of one ID, both returned
C7_Witness ==
    /\ out.op = "RulesForVersion"
    /\ \E i, j \in 1..Len(out.val) : i < j /\ ID(out.val[i]) = ID(out.val[j])
    /\ Len(out.val) < Len(rules)

\* a version that begins with "3."
BeginsWithThreeDot(version) == Len(version) >= 2 /\ version[1] = "3" /\ version[2] = "."

\* C8: every built-in rule applies to a version iff the version begins with
\* "3."; with the eight built-ins registered by registerRules,
\* RulesForVersion("2.0") and RulesForVersion("4.0.0") are empty and
\* RulesForVersion("3.1.0") returns all eight in registration order.
C8_BuiltinsApplyToThreeDot ==
    out.op = "RulesForVersion" =>
        /\ \A i \in DOMAIN rules :
              rules[i].kind # "other" =>
                 ((\E j \in DOMAIN out.val : out.val[j] = rules[i]) <=> BeginsWithThreeDot(out.arg))
        /\ rules = BuiltinRules =>
              /\ out.arg = V20 => out.val = <<>>
              /\ out.arg = V400 => out.val = <<>>
              /\ out.arg = V310 =>
                    [i \in DOMAIN out.val |-> ID(out.val[i])] =
                       << "info-title", "info-version", "paths-exist",
                          "operation-operationId-unique", "oas3-valid-schema-example",
                          "operation-description", "operation-success-response",
                          "oas3-security-defined" >>

\* the built-in registry asked for the rules of "3.1.0"
C8_Witness ==
    out.op = "RulesForVersion" /\ rules = BuiltinRules /\ out.arg = V310 /\ Len(out.val) = 8

\* the positions of the registered rules with a given ID
WithID(id) == {i \in DOMAIN rules : ID(rules[i]) = id}

\* C9: GetRule(id) returns the earliest-registered rule whose ID is id, and nil
\* when no registered rule has that ID; RunRule returns no result and no error
\* for an unknown ID or a rule that does not apply to the version.
C9_GetRuleFirstRegistrantWins ==
    /\ out.op = "GetRule" =>
          /\ out.val.isNil <=> WithID(out.arg) = {}
          /\ ~out.val.isNil =>
                /\ out.val.at \in WithID(out.arg)
                /\ \A i \in WithID(out.arg) : out.val.at <= i
                /\ out.val.rule = rules[out.val.at]
    /\ out.op = "RunRule" =>
          /\ out.val.err = "nil"
          /\ WithID(out.arg) = {} => out.val.result = <<>>
          /\ (WithID(out.arg) # {}
              /\ ~AppliesTo(rules[Nth(WithID(out.arg), 1)], specCtx.Version))
                => out.val.result = <<>>

\* a lookup by an ID two different rules share, answered with the first
C9_Witness ==
    /\ out.op = "GetRule"
    /\ \E i, j \in WithID(out.arg) : i < j /\ rules[i] # rules[j]
    /\ out.val.at = 1

\* C10 (as claimed): running the same registry against the same document and
\* version twice yields identical RuleResult sequences, detail texts included,
\* whatever order the maps are iterated in.  (Between two Run states nothing
\* but Run has been called, so the inputs of the two runs are the same.)
C10_RunIsIdempotent ==
    [][(out.op = "Run" /\ out'.op = "Run") => out'.val = out.val]_vars

(***************************************************************************)
(* Properties of the stepwise schema traversal (checked under              *)
(* SpecTraverse).                                                          *)
(***************************************************************************)
\* the nodes the properties of node n refer to
Succ(doc, n) ==
    {doc.heap[n].Properties.items[k] : k \in Keys(doc.heap[n].Properties)} \ {0}

\* the nodes reached from the set S in at most k property steps
RECURSIVE ReachFrom(_, _, _)
ReachFrom(doc, S, k) ==
    IF k = 0 THEN S
    ELSE ReachFrom(doc, S \cup UNION {Succ(doc, n) : n \in S}, k - 1)

\* some schema node reaches itself along property references
Cyclic(doc) ==
    \E n \in DOMAIN doc.heap : n \in ReachFrom(doc, Succ(doc, n), Len(doc.heap))

\* C11: on every schema graph it is started on, the graphs with a two-schema
\* cycle or a self-referencing property included, the schema-example check
\* comes to the point where Evaluate has returned the rule's RuleResult; it
\* neither recurses forever nor exhausts the stack.
C11_SchemaCheckTerminates ==
    <>(travPc = "returned" /\ travResult.RuleID = "oas3-valid-schema-example")

C11_Witness == travPc = "returned" /\ Cyclic(travCtx.Spec)

(***************************************************************************)
(* Properties of the built-in rules on the loaded document (checked under  *)
(* Spec).                                                                  *)
(***************************************************************************)
\* the schema nodes of a document
Nodes(doc) == {doc.heap[n] : n \in DOMAIN doc.heap}

\* the path items of a document
PathItems(doc) == {doc.Paths.items[p] : p \in Keys(doc.Paths)}

\* an optional section of the document is missing or empty
SectionMissing(doc) ==
    \/ doc.Info.isNil
    \/ doc.Paths.isNil
    \/ MapLen(doc.Paths) = 0
    \/ \E item \in PathItems(doc) : \A i \in 1..7 : Operations(item)[i].isNil
    \/ \E item \in PathItems(doc) :
          \E i \in 1..7 : ~Operations(item)[i].isNil /\ Operations(item)[i].Responses.isNil
    \/ doc.Components.isNil
    \/ doc.Components.Schemas.isNil
    \/ doc.Components.SecuritySchemes.isNil
    \/ \E node \in Nodes(doc) : node.Type = "" \/ node.Example.isNil

\* the positions of the applicable rules Run does not skip
KeptAt == ApplicableAt(specCtx.Version) \ SkippedAt(specCtx.Version)

\* C12: on a document with a missing or empty optional section, Run returns
\* one RuleResult for every applicable rule that is not skipped, and none of
\* the evaluations ended in a nil dereference.
C12_RunIsTotal ==
    (out.op = "Run" /\ SectionMissing(specCtx.Spec)) =>
        /\ Len(out.val) = Cardinality(KeptAt)
        /\ \A i \in 1..Len(out.val) :
              /\ out.val[i] # NilDereference
              /\ out.val[i].RuleID # ""
              /\ out.val[i].Detail # ""

\* the eight built-in rules were run on the document without info, or on the
\* document with a path item without operations and schemas without type or example
C12_Witness ==
    /\ out.op = "Run"
    /\ specCtx.Spec \in {DocEmpty, DocBare}
    /\ Len(out.val) = 8

\* no registered rule applies to the version of the loaded spec
NoRuleApplies == RulesForVersion(rules, specCtx.Version) = <<>>

\* the threshold the command uses when none is given
DefaultThreshold == <<"B">>

\* C13: when no registered rule applies to the version, Run returns the empty
\* sequence, and the report and the exit code made from it are those of a run
\* in which every rule passed: grade A+, score 100, exit code 0.
C13_EmptyRunIsFullyPassing ==
    (out.op = "Run" /\ NoRuleApplies) =>
        /\ out.val = <<>>
        /\ LET report == GenerateReport(specCtx.Version, out.val)
           IN  /\ report.Grade = "A+"
               /\ report.Score = 100
               /\ Handle(NewExitHandler(DefaultThreshold), Chars(report.Grade)) = 0

\* the run of exactly the eight built-in rules, none skipped, on the loaded spec
BuiltinRun ==
    /\ out.op = "Run"
    /\ rules = BuiltinRules
    /\ skipRules = {}

\* the IDs of the results of the last Run that did not pass
FailedIDs == {out.val[i].RuleID : i \in {j \in 1..Len(out.val) : ~out.val[j].Passed}}

\* the IDs of the results of the last Run that passed
PassedIDs == {out.val[i].RuleID : i \in {j \in 1..Len(out.val) : out.val[j].Passed}}

\* the built-in rules that return at once when there are no paths
GuardedIDs == {"operation-operationId-unique", "operation-description", "operation-success-response"}

EmptyDocumentRun == BuiltinRun /\ specCtx.Spec = DocEmpty /\ specCtx.Version = V310

\* C14 (as claimed): the eight built-in rules on the empty document at 3.1.0
\* give exactly 8 results of which at most one, that of paths-exist, fails,
\* and the rules guarded by a no-paths check pass.
C14_AtMostOneFails ==
    EmptyDocumentRun =>
        /\ Len(out.val) = 8
        /\ Cardinality({j \in 1..Len(out.val) : ~out.val[j].Passed}) <= 1
        /\ FailedIDs \subseteq {"paths-exist"}
        /\ GuardedIDs \subseteq PassedIDs

\* C14 (amended): the eight built-in rules on the empty document at 3.1.0 give
\* exactly 8 results; exactly four report absence by failing (info-title,
\* info-version, paths-exist and oas3-security-defined), and the rules guarded
\* by a no-paths check and the schema-example rule pass.
C14_FourReportAbsence ==
    EmptyDocumentRun =>
        /\ Len(out.val) = 8
        /\ FailedIDs = {"info-title", "info-version", "paths-exist", "oas3-security-defined"}
        /\ PassedIDs = GuardedIDs \cup {"oas3-valid-schema-example"}

C14_Witness == EmptyDocumentRun /\ Len(out.val) = 8

\* info.title is "", there is exactly one path and its only operation is a GET
\* without operationId, and no security scheme is defined
ScenarioDocument(doc) ==
    /\ ~doc.Info.isNil
    /\ doc.Info.Title = ""
    /\ MapLen(doc.Paths) = 1
    /\ \A item \in PathItems(doc) :
          /\ ~item.Get.isNil
          /\ item.Get.OperationID = ""
          /\ \A i \in 2..7 : Operations(item)[i].isNil
    /\ \/ doc.Components.isNil
       \/ doc.Components.SecuritySchemes.isNil
       \/ MapLen(doc.Components.SecuritySchemes) = 0

\* the last Run holds a failed result of the rule with this detail
Fails(id, detail) ==
    \E i \in 1..Len(out.val) :
        /\ out.val[i].RuleID = id
        /\ ~out.val[i].Passed
        /\ out.val[i].Detail = detail

\* C15: on the document with the empty title, one GET without operationId and
\* no security schemes, the run of the built-in rules on a 3.x version holds
\* the failing info-title, operation-operationId-unique and
\* oas3-security-defined results with the details stated.
C15_ScenarioFailures ==
    (BuiltinRun /\ ScenarioDocument(specCtx.Spec) /\ HasPrefix(specCtx.Version, BuiltinPrefix)) =>
        /\ Fails("info-title", "Missing title in info section")
        /\ Fails("operation-operationId-unique", "1 operations missing operation ID")
        /\ Fails("oas3-security-defined", "No security schemes defined")

C15_Witness ==
    /\ BuiltinRun
    /\ ScenarioDocument(specCtx.Spec)
    /\ HasPrefix(specCtx.Version, BuiltinPrefix)
    /\ Len(out.val) = 8

\* the results of the last Run or RunRule, each with the rule that produced it
Produced ==
    IF out.op = "Run"
    THEN {<<out.val[i], rules[Nth(KeptAt, i)]>> : i \in 1..Len(out.val)}
    ELSE IF out.op = "RunRule"
    THEN {<<out.val.result[i], GetRule(rules, out.arg).rule>> : i \in 1..Len(out.val.result)}
    ELSE {}

\* those produced by a built-in rule
ProducedByBuiltin == {p \in Produced : p[2].kind # "other"}

\* C16: every RuleResult a built-in rule returns carries the ID of the rule
\* that produced it, and when it did not pass its detail is not empty.
C16_ResultNamesItsRule ==
    \A p \in ProducedByBuiltin :
        /\ p[1].RuleID = ID(p[2])
        /\ ~p[1].Passed => p[1].Detail # ""

\* a failed result of a rule whose detail is put together from counts
C16_Witness ==
    \E p \in ProducedByBuiltin :
        /\ p[1].RuleID = "operation-operationId-unique"
        /\ ~p[1].Passed
        /\ p[1].Detail = "1 duplicate operation IDs"

\* C17: every RuleResult a built-in rule returns has the severity error,
\* warning or info.
C17_SeverityIsOneOfThree ==
    \A p \in ProducedByBuiltin : p[1].Severity \in {"error", "warning", "info"}

(***************************************************************************)
(* Properties of the exit handler (checked under SpecExit).                *)
(***************************************************************************)
\* the letters from the worst to the best
LetterOrder == <<"F", "D", "C-", "C", "C+", "B-", "B", "B+", "A-", "A", "A+">>

\* equal but for the case of the letters
EqualFold(a, b) == ToLower(a) = ToLower(b)

\* the string is one of the eleven letters, in either case
KnownLetter(s) == \E k \in DOMAIN LetterOrder : EqualFold(s, Chars(LetterOrder[k]))

\* the place of a known letter in the order
Rank(s) == CHOOSE k \in DOMAIN LetterOrder : EqualFold(s, Chars(LetterOrder[k]))

\* C18: Handle returns 0 iff grade and threshold are both among the eleven
\* letters, compared without regard to case, and the grade is at least the
\* threshold in the order A+ > A > A- > B+ > B > B- > C+ > C > C- > D > F; it
\* returns 1 otherwise.
C18_ExitCodeFollowsOrder ==
    exitOut.called =>
        exitOut.code = IF /\ KnownLetter(exitOut.grade)
                          /\ KnownLetter(exitHandler.failThreshold)
                          /\ Rank(exitOut.grade) >= Rank(exitHandler.failThreshold)
                       THEN 0 ELSE 1

\* a grade given in lower case met the threshold it equals
C18_Witness ==
    /\ exitOut.called
    /\ exitOut.code = 0
    /\ ToUpper(exitOut.grade) # exitOut.grade
    /\ Rank(exitOut.grade) = Rank(exitHandler.failThreshold)

(***************************************************************************)
(* The README's Grade Scale (checked under SpecGrader).                    *)
(***************************************************************************)
\* the letter the README's Grade Scale gives p passed of t, the percentage
\* compared as a rational
ReadmeLetter(p, t) ==
    IF 100 * p >= 95 * t THEN "A+"
    ELSE IF 100 * p >= 90 * t THEN "A"
    ELSE IF 100 * p >= 85 * t THEN "B+"
    ELSE IF 100 * p >= 80 * t THEN "B"
    ELSE IF 100 * p >= 75 * t THEN "C+"
    ELSE IF 100 * p >= 70 * t THEN "C"
    ELSE IF 100 * p >= 60 * t THEN "D"
    ELSE "F"

\* C19: the grade of a non-empty result set is the letter of the README's
\* Grade Scale (A+ 95-100, A 90-94, B+ 85-89, B 80-84, C+ 75-79, C 70-74,
\* D 60-69, F 0-59); 7 passed of 8 is B+.
C19_GradeFollowsReadmeScale ==
    (Graded /\ TotalCount > 0) => gradeOut = ReadmeLetter(PassedCount, TotalCount)

(***************************************************************************)
(* Properties of the command (checked under SpecCLI).                      *)
(***************************************************************************)
\* the output formats the README advertises
AdvertisedFormats == {FormatJson, FormatCli, FormatHtml, FormatMarkdown, FormatDeveloper}

\* the command came to the switch over the output format
CameToOutput == cliOut.ran /\ cliOut.graded

\* C20: with any advertised output format (json, cli, html, markdown,
\* developer) resolved from the flag or the config file, the command that
\* comes to write its output renders the report and ends with the exit code
\* the exit handler gives the report's grade, not with the error "unsupported
\* output format"; with "developer" it renders the developer report.
C20_AdvertisedFormatsAccepted ==
    (CameToOutput /\ ToLower(cliOut.config.OutputFormat) \in AdvertisedFormats) =>
        /\ cliOut.err = ""
        /\ cliOut.output # ""
        /\ ToLower(cliOut.config.OutputFormat) = FormatDeveloper
              => cliOut.output = "FormatDeveloperCLI"
        /\ cliOut.exitCode = Handle(NewExitHandler(cliOut.config.FailThreshold),
                                    Chars(cliOut.report.Grade))

(***************************************************************************)
(* Properties of the schema-example traversal (checked under               *)
(* SpecTraverse).                                                          *)
(***************************************************************************)
\* the walks from the node start along at most n property references that
\* have a Value and meet no node twice: the property names and the nodes met
RECURSIVE SimpleWalks(_, _, _)
SimpleWalks(doc, start, n) ==
    IF n = 0 THEN {[names |-> <<>>, nodes |-> <<start>>]}
    ELSE LET shorter == SimpleWalks(doc, start, n - 1)
             Last(w) == w.nodes[Len(w.nodes)]
             Step(w, p) == doc.heap[Last(w)].Properties.items[p]
         IN  shorter \cup
             UNION {{[names |-> Append(w.names, p), nodes |-> Append(w.nodes, Step(w, p))] :
                        p \in {q \in Keys(doc.heap[Last(w)].Properties) :
                                  Step(w, q) # 0
                                  /\ \A i \in DOMAIN w.nodes : w.nodes[i] # Step(w, q)}} :
                    w \in {v \in shorter : Len(v.names) = n - 1}}

\* the named schemas whose reference has a Value
NamedSchemas(doc) ==
    IF doc.Components.isNil \/ doc.Components.Schemas.isNil THEN {}
    ELSE {n \in Keys(doc.Components.Schemas) : doc.Components.Schemas.items[n] # 0}

\* the dotted name of a walk: the schema name, then the property names
DottedName(schemaName, names) ==
    IF names = <<>> THEN schemaName ELSE schemaName \o "." \o Join(names, ".")

\* a walk from a named schema ends at a node whose typed example mismatches
Mismatching(doc, w) ==
    LET node == doc.heap[w.nodes[Len(w.nodes)]]
    IN  /\ ~node.Example.isNil
        /\ node.Type # ""
        /\ ~isExampleValidForType(node.Example, node.Type)

\* the walks of at most n steps from the named schemas that end at a mismatch,
\* each with the name of its schema
MismatchWalks(doc, n) ==
    UNION {{[schemaName |-> s, names |-> w.names, nodes |-> w.nodes] :
               w \in {v \in SimpleWalks(doc, doc.Components.Schemas.items[s], n) :
                         Mismatching(doc, v)}} :
           s \in NamedSchemas(doc)}

\* what the rule says of a mismatch walk
IssueOf(doc, w) ==
    LET node == doc.heap[w.nodes[Len(w.nodes)]]
    IN  DottedName(w.schemaName, w.names) \o ": " \o node.Type \o " example "
        \o node.Example.text \o " doesn't match type " \o node.Type

\* the issues Evaluate has collected, as a set
Collected == {travIssues[i] : i \in DOMAIN travIssues}

\* the document has a chain of property references longer than the cap
DeeperThanCap(doc) ==
    \E s \in NamedSchemas(doc) :
        \E w \in SimpleWalks(doc, doc.Components.Schemas.items[s], DepthLimit + 1) :
            Len(w.names) = DepthLimit + 1

\* C21: the call of a named schema has depth 0 and each property step adds
\* one; only calls of depth at most 10 get past the guard (are type-checked
\* and range over their properties), so nothing below depth 11 is ever called.
\* When Evaluate returns, the issues are exactly those of the mismatching
\* nodes within 10 property steps of a named schema: a branch cut at the cap
\* adds no issue and takes none away from its siblings or the other schemas.
C21_DepthCappedAtTen ==
    /\ \A i \in DOMAIN travStack :
          /\ travStack[i].depth = i - 1
          /\ travStack[i].pc = "loop" => travStack[i].depth <= DepthLimit
          /\ travStack[i].depth <= DepthLimit + 1
    /\ travPc = "returned" =>
          Collected = {IssueOf(travCtx.Spec, w) : w \in MismatchWalks(travCtx.Spec, DepthLimit)}

\* Evaluate has returned on a document deeper than the cap, with the mismatch
\* at depth 10, its sibling's and the other schemas' reported
C21_Witness ==
    /\ travPc = "returned"
    /\ DeeperThanCap(travCtx.Spec)
    /\ Cardinality(Collected) >= 3
    /\ \E w \in MismatchWalks(travCtx.Spec, DepthLimit + 1) :
          Len(w.names) = DepthLimit + 1 /\ IssueOf(travCtx.Spec, w) \notin Collected

\* the calls past the guard: the frames ranging over their properties
Entered == {i \in DOMAIN travStack : travStack[i].pc = "loop"}

\* a node of the document has a typed example
TypedExample(node) == ~node.Example.isNil /\ node.Type # ""

\* every typed example of the document is compatible with its type
AllCompatible(doc) ==
    \A n \in DOMAIN doc.heap :
        TypedExample(doc.heap[n]) => isExampleValidForType(doc.heap[n].Example, doc.heap[n].Type)

\* C22: no two of the calls in progress past the guard are on the same node
\* (a node on the current recursion path is not entered again), and on a
\* document whose every typed example is compatible Evaluate returns a passing
\* result with no issue, cyclic schema graph or not.
C22_CycleAddsNoMismatch ==
    /\ \A i, j \in Entered : travStack[i].schema = travStack[j].schema => i = j
    /\ (travPc = "returned" /\ AllCompatible(travCtx.Spec)) =>
          travResult.Passed /\ travIssues = <<>>

\* Evaluate has returned a pass on a cyclic graph that has a typed example
C22_Witness ==
    /\ travPc = "returned"
    /\ Cyclic(travCtx.Spec)
    /\ AllCompatible(travCtx.Spec)
    /\ \E n \in DOMAIN travCtx.Spec.heap : TypedExample(travCtx.Spec.heap[n])
    /\ travResult.Passed

\* the mismatch walks from the named schemas that end at the node n
WalksTo(doc, n) ==
    {w \in MismatchWalks(doc, DepthLimit) : w.nodes[Len(w.nodes)] = n}

\* how many of the collected issues are the given one
Times(issue) == Cardinality({i \in DOMAIN travIssues : travIssues[i] = issue})

\* C30: the nodes marked true in the visited map are exactly the nodes of the
\* calls in progress past the guard, so no mark is left when the call of a
\* named schema has returned.  When Evaluate returns, a mismatching node has
\* been reported once for each acyclic property path of at most 10 steps that
\* leads to it from a named schema, each time under that path's dotted name.
C30_VisitedIsCurrentPath ==
    /\ travVisited.on = {travStack[i].schema : i \in Entered}
    /\ travStack = <<>> => travVisited.on = {}
    /\ travPc = "returned" =>
          /\ Len(travIssues) = Cardinality(MismatchWalks(travCtx.Spec, DepthLimit))
          /\ \A w \in MismatchWalks(travCtx.Spec, DepthLimit) : Times(IssueOf(travCtx.Spec, w)) = 1

\* Evaluate has returned on a document where one mismatching node is reached
\* along two property paths, and no mark is left
C30_Witness ==
    /\ travPc = "returned"
    /\ \E n \in DOMAIN travCtx.Spec.heap : Cardinality(WalksTo(travCtx.Spec, n)) = 2
    /\ travVisited.keys # {}
    /\ travVisited.on = {}

\* the issues the detail may list: the first three collected
Listed == IF Len(travIssues) <= DetailIssues THEN travIssues
          ELSE << travIssues[1], travIssues[2], travIssues[3] >>

\* the listed issues, each followed by "; " but the last
ListedText ==
    CASE Len(Listed) = 1 -> Listed[1]
      [] Len(Listed) = 2 -> Listed[1] \o "; " \o Listed[2]
      [] Len(Listed) = 3 -> Listed[1] \o "; " \o Listed[2] \o "; " \o Listed[3]
      [] OTHER -> ""

\* C24: when Evaluate returns, the result passes exactly when no mismatch was
\* collected; a failing result's detail gives the total number of mismatches
\* and then the first three collected (all of them when there are at most
\* three) and no other.
C24_DetailListsFirstThree ==
    travPc = "returned" =>
        /\ travResult.Passed <=> travIssues = <<>>
        /\ ~travResult.Passed =>
              travResult.Detail = "Found " \o Itoa(Len(travIssues))
                                  \o " type/example mismatches: " \o ListedText

\* Evaluate has returned a failure with more mismatches than the detail lists
C24_Witness ==
    /\ travPc = "returned"
    /\ ~travResult.Passed
    /\ Len(travIssues) > DetailIssues

(***************************************************************************)
(* Properties of the example check on one schema (checked under            *)
(* SpecExample).                                                           *)
(***************************************************************************)
\* the value is a number
Numeric(value) == value.kind \in {"int", "int32", "int64", "float32", "float64"}

\* the value is a floating-point number
Floating(value) == value.kind \in {"float32", "float64"}

\* the compatibility of a value with a declared type, as the table gives it
TableCompatible(type, value) ==
    CASE type = "string" -> value.kind = "string"
      [] type = "integer" -> Numeric(value) /\ (Floating(value) => ~value.fractional)
      [] type = "number" -> Numeric(value)
      [] type = "boolean" -> value.kind = "bool"
      [] type = "array" -> value.kind = "slice"
      [] type = "object" -> value.kind = "map"
      [] OTHER -> TRUE

\* C23: the direct check of a schema reports nothing when the type is empty
\* or the example absent, and otherwise reports a mismatch exactly when the
\* example is incompatible with the type by the table: string with a string,
\* integer with a number that has no fractional part, number with any number,
\* boolean with a boolean, array with a sequence, object with a mapping, any
\* other type with everything.
C23_CompatibilityAsStated ==
    exOut.op = "check" =>
        (exOut.issues = <<>>
            <=> (exInput.type = "" \/ exInput.value.isNil
                    \/ TableCompatible(exInput.type, exInput.value)))

(***************************************************************************)
(* Properties of the info rules and of the frame of Run (checked under     *)
(* Spec).                                                                  *)
(***************************************************************************)
\* C25: the result of InfoTitleRule fails exactly when the info section is
\* absent or the title is the empty string, and that of InfoVersionRule
\* exactly when the info section is absent or the version is the empty
\* string; every other document passes, a title of one to four characters
\* included.
C25_InfoRulesFailOnlyOnAbsence ==
    \A p \in ProducedByBuiltin :
        /\ p[2].kind = "InfoTitleRule" =>
              (~p[1].Passed <=> (specCtx.Spec.Info.isNil \/ specCtx.Spec.Info.Title = ""))
        /\ p[2].kind = "InfoVersionRule" =>
              (~p[1].Passed <=> (specCtx.Spec.Info.isNil \/ specCtx.Spec.Info.Version = ""))

\* a step in which Run returns a result other than the value returned last
RunReturns == out'.op = "Run" /\ out' # out

\* C26: a step in which Run returns leaves the registry with the same rules in
\* the same order, the skipped ones included, the runner's skip set as it was
\* and the loaded document and version as they were, so that RulesForVersion
\* gives what it gave before and a following Run with the same map iteration
\* order returns the same results.
C26_RunLeavesInputsAlone ==
    [][RunReturns =>
          /\ rules' = rules
          /\ skipRules' = skipRules
          /\ specCtx' = specCtx
          /\ RulesForVersion(rules', specCtx'.Version) = RulesForVersion(rules, specCtx.Version)
          /\ \A ord \in Orders(specCtx.Spec) :
                RunResults(rules', skipRules', specCtx', ord)
                    = RunResults(rules, skipRules, specCtx, ord)]_vars

\* Run has returned with the built-in rules registered and one of the
\* applicable rules skipped, still registered
C26_Witness ==
    /\ out.op = "Run"
    /\ SkippedAt(specCtx.Version) # {}
    /\ Len(out.val) < Len(rules)
    /\ Len(rules) >= 8

(***************************************************************************)
(* Properties of Evaluate calls in several goroutines (checked under       *)
(* SpecConcurrent).                                                        *)
(***************************************************************************)
\* the calls of goroutine g past the guard
GoEntered(g) == {i \in DOMAIN conEval[g].stack : conEval[g].stack[i].pc = "loop"}

\* C27: whatever the interleaving of the goroutines' steps, the visited map a
\* goroutine works on marks exactly the nodes of its own calls in progress,
\* untouched by the other goroutines, and an Evaluate call that has returned
\* has returned the RuleResult the rule gives on that document and map
\* iteration order when evaluated alone.
C27_ConcurrentEvaluateAsAlone ==
    \A g \in Goroutines :
        /\ GoVisited(g).on = {conEval[g].stack[i].schema : i \in GoEntered(g)}
        /\ conEval[g].pc = "returned" =>
              conEval[g].result = Evaluate(conEval[g].rule, conCtx, conOrd[g])

\* two goroutines are past the guard on the same node of a cyclic graph at the
\* same time, one of them already returned from a nested call with an issue
C27_Witness ==
    /\ Cyclic(conCtx.Spec)
    /\ \E g, h \in Goroutines :
          /\ g # h
          /\ GoVisited(g).on \cap GoVisited(h).on # {}
          /\ \E i \in GoEntered(g) : Len(conEval[g].stack[i].issues) >= 2
          /\ conEval[h].stack # <<>>

(***************************************************************************)
(* Score against grade, and the grader's letters against the exit          *)
(* handler's table (checked under SpecGrader).                             *)
(***************************************************************************)
\* the letter the threshold table gives an integer score
ScoreLetter(score) ==
    IF score >= 95 THEN "A+"
    ELSE IF score >= 90 THEN "A"
    ELSE IF score >= 85 THEN "A-"
    ELSE IF score >= 80 THEN "B+"
    ELSE IF score >= 75 THEN "B"
    ELSE IF score >= 70 THEN "B-"
    ELSE IF score >= 65 THEN "C+"
    ELSE IF score >= 60 THEN "C"
    ELSE IF score >= 55 THEN "C-"
    ELSE IF score >= 50 THEN "D"
    ELSE "F"

\* C28: once Grade and CalculateScore have both returned for a result set, the
\* letter is the one the threshold table gives the integer score, and the
\* report GenerateReport builds from the same results carries that letter and
\* that score.
C28_GradeAgreesWithScore ==
    (Graded /\ Scored) =>
        /\ gradeOut = ScoreLetter(scoreOut)
        /\ GenerateReport(V310, graderInput).Grade = gradeOut
        /\ GenerateReport(V310, graderInput).Score = scoreOut

\* both have returned for a result set whose percentage is not an integer and
\* lies less than one below an edge of the table
C28_Witness ==
    /\ Graded
    /\ Scored
    /\ 100 * PassedCount # scoreOut * TotalCount
    /\ scoreOut + 1 \in {GradeTable[i][1] : i \in DOMAIN GradeTable}
    /\ gradeOut = ScoreLetter(scoreOut)

\* the thresholds the exit handler knows, in either case
ValidThresholds == {T \in ExitInputs : KnownLetter(T)}

\* the exit code of a handler built with threshold T for a letter of the grader
ExitFor(T, letter) == Handle(NewExitHandler(T), Chars(letter))

\* the letter Grade returns when one more of the results has passed
NextLetter == Grade(PrefixResults(PassedCount + 1, TotalCount))

\* C29: the letter Grade has returned is a key of the exit handler's grade
\* table, so Handle does not return by its unknown-grade branch for it; for
\* every valid threshold the exit code with one more result passed, the total
\* unchanged, is not greater (a pass never turns exit 0 into exit 1), and a
\* handler with threshold F returns 0.
C29_GraderLettersAreHandled ==
    Graded =>
        /\ ToUpper(Chars(gradeOut)) \in DOMAIN gradeValues
        /\ PassedCount < TotalCount =>
              \A T \in ValidThresholds : ExitFor(T, NextLetter) <= ExitFor(T, gradeOut)
        /\ ExitFor(<<"F">>, gradeOut) = 0
        /\ ExitFor(<<"f">>, gradeOut) = 0

\* Grade has returned a minus letter that fails a threshold which one more
\* passed result meets
C29_Witness ==
    /\ Graded
    /\ gradeOut \in {"A-", "B-", "C-"}
    /\ PassedCount < TotalCount
    /\ \E T \in ValidThresholds : ExitFor(T, gradeOut) = 1 /\ ExitFor(T, NextLetter) = 0

====
